---- MODULE Spec2Model ----
(***************************************************************************)
(* State-machine model of the supervisor / analyzer orchestration graph of *)
(* open_deep_research (src/src/open_deep_research/deep_researcher.py).     *)
(*                                                                         *)
(* The pipeline is explored in parts, each from its own initial states:    *)
(*   - the Supervisor scope (supervisor, supervisor_tools and the fan-out  *)
(*     of analyzer units started with asyncio.gather);                     *)
(*   - one Analyzer Unit scope (analyzer, analyzer_tools and the fan-out   *)
(*     of capability calls started with asyncio.gather, compress_analysis  *)
(*     and its retries);                                                   *)
(*   - the top-level graph design_doc_agent around them (clarify_with_user, *)
(*     write_design_brief, final_design_doc_generation), started directly   *)
(*     or through run.py.                                                   *)
(* In the Supervisor scope an analyzer unit is a concurrent task that      *)
(* either returns its output state or raises.                              *)
(*                                                                         *)
(* Texts are pairs <<kind, n>>: the fixed part of the text and the number  *)
(* formatted into it (a topic, a call id, a configured ceiling).           *)
(***************************************************************************)
EXTENDS Integers, Sequences, FiniteSets, TLC

\* ---------------------------------------------------------------- bounds
\* largest max_concurrent_analysis_units explored
MaxCap == 2
\* largest max_analyzer_iterations explored
MaxIterCap == 3
\* most tool calls in one supervisor (Plan) response
MaxCalls == 3
\* largest max_react_tool_calls explored
MaxReactCap == 2
\* most tool calls in one analyzer (Think) response
MaxToolCalls == 2
\* notes in AccumulatedNotes when Final Synthesis starts
MaxNotes == 2

VARIABLES
    scope,                          \* which graph this behaviour runs
    max_concurrent_analysis_units,  \* Configuration (immutable)
    max_analyzer_iterations,        \* Configuration (immutable)
    max_react_tool_calls,           \* Configuration (immutable)
    github_configured,              \* github_repo_url and github_access_token are set
    github_repo_url,                \* configurable["github_repo_url"]
    args,                           \* run.py: the parsed command line (NoArgs: another caller)
    environ,                        \* os.environ: GITHUB_REPOSITORY, MAX_ANALYZER_ITERATIONS
    sup_pc,                         \* node of supervisor_subgraph about to run
    supervisor_messages,            \* SupervisorState.supervisor_messages
    analysis_iterations,            \* SupervisorState.analysis_iterations
    analysis_notes,                 \* SupervisorState.analysis_notes
    raw_analysis,                   \* SupervisorState.raw_analysis
    coros,                          \* tool calls of the units started by the last gather
    task_status,                    \* per started unit: running / returned / raised_*
    completion_order,               \* indices of coros in the order the units finished
    gather_exc,                     \* first exception set on the gather future
    stage,                          \* node of design_doc_agent the run has reached
    next_id,                        \* ids handed out to tool calls so far
    plan_calls,                     \* number of supervisor (Plan) steps executed
    units_started,                  \* units started by the last supervisor_tools step
    diag,                           \* last diagnostic line printed by supervisor_tools
    unit_pc,                        \* node of analyzer_subgraph about to run
    analyzer_messages,              \* AnalyzerState.analyzer_messages
    tool_call_iterations,           \* AnalyzerState.tool_call_iterations
    act_calls,                      \* tool calls of the capability fan-out in flight
    act_status,                     \* per capability call: running / returned / failed
    act_order,                      \* indices of act_calls in completion order
    unit_next_id,                   \* ids handed out to the unit's tool calls so far
    compress_messages,              \* compress_analysis: its local analyzer_messages
    synthesis_attempts,             \* compress_analysis: its local synthesis_attempts
    synthesis_outcomes,             \* outcome of each synthesizer_model.ainvoke so far
    synthesis_requests,             \* the messages each synthesizer_model.ainvoke was given
    compressed_analysis,            \* AnalyzerOutputState.compressed_analysis
    unit_raw_analysis,              \* AnalyzerOutputState.raw_analysis
    allow_clarification,            \* Configuration (immutable)
    model_token_limit,              \* get_model_token_limit(final_design_doc_model)
    agent_messages,                 \* AgentState.messages
    repo_url,                       \* AgentState.repo_url
    design_brief,                   \* AgentState.design_brief
    final_design_doc,               \* AgentState.final_design_doc
    clarify_calls,                  \* model invocations made by clarify_with_user
    findings,                       \* final_design_doc_generation: len(findings)
    findings_token_limit,           \* final_design_doc_generation: its local
    current_retry,                  \* final_design_doc_generation: its local
    final_outcomes,                 \* outcome of each writer model ainvoke so far
    final_requests                  \* len(findings) in the prompt of each ainvoke

cfg_vars == <<max_concurrent_analysis_units, max_analyzer_iterations, max_react_tool_calls,
              github_configured, github_repo_url, args>>

sup_vars == <<sup_pc, supervisor_messages, analysis_iterations, analysis_notes,
              raw_analysis, coros, task_status, completion_order, gather_exc,
              stage, next_id, plan_calls, units_started, diag>>

compress_vars == <<compress_messages, synthesis_attempts, synthesis_outcomes,
                   synthesis_requests, compressed_analysis, unit_raw_analysis>>

unit_vars == <<unit_pc, analyzer_messages, tool_call_iterations, act_calls,
               act_status, act_order, unit_next_id, compress_vars>>

final_vars == <<findings, findings_token_limit, current_retry, final_outcomes, final_requests>>

agent_vars == <<allow_clarification, model_token_limit, agent_messages, repo_url, design_brief,
                final_design_doc, clarify_calls, final_vars, environ>>

vars == <<scope, cfg_vars, sup_vars, unit_vars, agent_vars>>

\* ------------------------------------------------------- python helpers
Min(a, b) == IF a <= b THEN a ELSE b

Max(a, b) == IF a >= b THEN a ELSE b

\* s[:k] of a python list (a negative k counts from the end)
PySliceTo(s, k) ==
    LET stop == IF k < 0 THEN Max(Len(s) + k, 0) ELSE Min(k, Len(s))
    IN  SubSeq(s, 1, stop)

\* s[k:] of a python list (a negative k counts from the end)
PySliceFrom(s, k) ==
    LET start == IF k < 0 THEN Max(Len(s) + k, 0) ELSE Min(k, Len(s))
    IN  SubSeq(s, start + 1, Len(s))

\* ------------------------------------------------------------- messages
NoCalls == <<>>

SystemMessage(c) ==
    [type |-> "system", content |-> c, tool_calls |-> NoCalls, name |-> "", tool_call_id |-> 0]

HumanMessage(c) ==
    [type |-> "human", content |-> c, tool_calls |-> NoCalls, name |-> "", tool_call_id |-> 0]

AIMessage(calls) ==
    [type |-> "ai", content |-> <<"ai", 0>>, tool_calls |-> calls, name |-> "", tool_call_id |-> 0]

ToolMessage(c, n, id) ==
    [type |-> "tool", content |-> c, tool_calls |-> NoCalls, name |-> n, tool_call_id |-> id]

\* filter_messages(messages, include_types="tool")
ToolMessagesOf(messages) == SelectSeq(messages, LAMBDA m : m.type = "tool")

\* notes that keep the unit reports only
get_notes_from_tool_calls_reports_only(messages) ==
    LET tools == SelectSeq(messages,
                           LAMBDA m : m.type = "tool" /\ m.content[1] = "compressed_analysis")
    IN  [i \in 1..Len(tools) |-> tools[i].content]

\* utils.get_notes_from_tool_calls
get_notes_from_tool_calls(messages) ==
    LET tools == ToolMessagesOf(messages)
    IN  [i \in 1..Len(tools) |-> tools[i].content]

\* state.override_reducer for an update that is a plain list
override_reducer(current_value, new_value) == current_value \o new_value

override_reducer_override_appends(current_value, value) == current_value \o value

\* state.override_reducer for an update {"type": "override", "value": value}
override_reducer_override(current_value, value) == value

\* langgraph add_messages (MessagesState.messages) for new messages
add_messages(current_value, new_value) == current_value \o new_value

\* ------------------------------------------------ configuration / inputs
\* tools bound to the lead analyzer model
LeadAnalyzerTools == {"AnalyzeRepository", "AnalysisComplete"}

\* classes is_token_limit_exceeded sorts an exception into
ErrorClasses == {"token_limit", "other"}

\* args of a tool call that has no "analysis_topic" key
NoTopic == 0

\* a Plan response: its tool calls, the i-th asking for topic i, with fresh ids.
\* args is the call's analysis_topic; the model is not held to the schema, so a
\* response may leave the "analysis_topic" argument out of its calls (~ with_topic)
PlanToolCalls(names, with_topic, base) ==
    [i \in 1..Len(names) |->
        [name |-> names[i],
         args |-> IF names[i] = "AnalyzeRepository" /\ with_topic THEN i ELSE NoTopic,
         id   |-> base + i]]

PlanNames == UNION {[1..n -> LeadAnalyzerTools] : n \in 0..MaxCalls}

\* the two messages write_design_brief seeds the supervisor history with
InitialSupervisorMessages(k) ==
    <<SystemMessage(<<"lead_analyzer_prompt", k>>), HumanMessage(<<"Repository / Design Brief / Repo Setup", 0>>)>>

\* ------------------------------------------------------- supervisor (Plan)
NextIterations_by_two(n) == n + 2

\* state.get("analysis_iterations", 0) + 1
NextIterations(n) == n + 1

supervisor ==
    /\ scope = "supervisor"
    /\ sup_pc = "supervisor"
    /\ \E names \in PlanNames, with_topic \in BOOLEAN :
         LET response == AIMessage(PlanToolCalls(names, with_topic, next_id))
         IN  /\ supervisor_messages' = override_reducer(supervisor_messages, <<response>>)
             /\ next_id' = next_id + Len(names)
    /\ analysis_iterations' = NextIterations(analysis_iterations)
    /\ plan_calls' = plan_calls + 1
    /\ sup_pc' = "supervisor_tools"
    /\ UNCHANGED <<scope, agent_vars, cfg_vars, unit_vars, analysis_notes, raw_analysis, coros,
                   task_status, completion_order, gather_exc, stage, units_started, diag>>

\* a supervisor that caught the failure and ended the loop with the notes so far
supervisor_model_fails_caught ==
    /\ scope = "supervisor"
    /\ sup_pc = "supervisor"
    /\ plan_calls' = plan_calls + 1
    /\ sup_pc' = "__end__"
    /\ analysis_notes' = override_reducer(analysis_notes,
                                          get_notes_from_tool_calls(supervisor_messages))
    /\ UNCHANGED <<scope, agent_vars, cfg_vars, unit_vars, supervisor_messages, analysis_iterations,
                   raw_analysis, coros, task_status, completion_order, stage,
                   gather_exc, next_id, units_started, diag>>

\* analysis_model.ainvoke raises after the collaborator's retries: supervisor has
\* no handler, so the exception leaves the subgraph and design_doc_agent.ainvoke
supervisor_model_fails ==
    /\ scope = "supervisor"
    /\ sup_pc = "supervisor"
    /\ plan_calls' = plan_calls + 1
    /\ sup_pc' = "raised"
    /\ stage' = "raised"
    /\ UNCHANGED <<scope, agent_vars, cfg_vars, unit_vars, supervisor_messages, analysis_iterations,
                   analysis_notes, raw_analysis, coros, task_status, completion_order,
                   gather_exc, next_id, units_started, diag>>

\* -------------------------------------------------- supervisor_tools (Dispatch)
most_recent_message(messages) == messages[Len(messages)]

exceeded_allowed_iterations_strict(iterations, cap) == iterations > cap

\* the test made on the number of Dispatch steps completed before this one
exceeded_allowed_iterations_after_dispatch(iterations, cap) == iterations - 1 >= cap

exceeded_allowed_iterations(iterations, cap) == iterations >= cap

no_tool_calls(msg) == Len(msg.tool_calls) = 0

\* the reading of the comment above the test in the source: "... and there is only
\* one tool call in the message"
analysis_complete_tool_call_alone(msg) ==
    /\ Len(msg.tool_calls) = 1
    /\ msg.tool_calls[1].name = "AnalysisComplete"

analysis_complete_tool_call(msg) ==
    \E i \in 1..Len(msg.tool_calls) : msg.tool_calls[i].name = "AnalysisComplete"

all_analyze_repository_calls(msg) ==
    SelectSeq(msg.tool_calls, LAMBDA c : c.name = "AnalyzeRepository")

analyze_repository_calls_uncapped(msg, k) == all_analyze_repository_calls(msg)

analyze_repository_calls(msg, k) == PySliceTo(all_analyze_repository_calls(msg), k)

overflow_analyze_repository_calls_off_by_one(msg, k) ==
    PySliceFrom(all_analyze_repository_calls(msg), k + 1)

overflow_analyze_repository_calls(msg, k) == PySliceFrom(all_analyze_repository_calls(msg), k)

\* what a unit that ran to its end hands back (AnalyzerOutputState) for a topic
Observation(call) ==
    [compressed_analysis |-> <<"compressed_analysis", call.args>>,
     raw_analysis        |-> <<"raw_analysis", call.args>>]

GatherResults_in_completion_order(calls, order) ==
    [i \in 1..Len(calls) |-> Observation(calls[order[i]])]

\* asyncio.gather(*coros): the results, in the order of the awaitables
GatherResults(calls, order) == [i \in 1..Len(calls) |-> Observation(calls[i])]

\* zip(tool_results, analyze_repository_calls)
UnitToolMessages(results, calls) ==
    [i \in 1..Min(Len(results), Len(calls)) |->
        ToolMessage(results[i].compressed_analysis, calls[i].name, calls[i].id)]

\* the f-string of the overflow ToolMessage, without the ceiling formatted into it
RejectionText ==
    "Error: Did not run this analysis as you have already exceeded the maximum number of concurrent analysis units. Please try again with {} or fewer analysis units."

OverflowToolMessages_counts_rejected(overflow, k) ==
    [i \in 1..Len(overflow) |->
        ToolMessage(<<RejectionText, Len(overflow)>>, "AnalyzeRepository", overflow[i].id)]

OverflowToolMessages(overflow, k) ==
    [i \in 1..Len(overflow) |->
        ToolMessage(<<RejectionText, k>>, "AnalyzeRepository", overflow[i].id)]

\* "analysis_notes" of the return that ends the loop on the exit criteria
ExitUpdateNotes(messages) == get_notes_from_tool_calls(messages)

ExceptUpdateNotes_token_limit_drops(messages, cls) ==
    IF cls = "token_limit" THEN <<>> ELSE get_notes_from_tool_calls(messages)

\* "analysis_notes" of the return of the except block, e of class cls caught
ExceptUpdateNotes(messages, cls) == get_notes_from_tool_calls(messages)

\* tool_call["args"]["analysis_topic"] raises KeyError for one of the admitted calls
MissingTopic(calls) == \E i \in 1..Len(calls) : calls[i].args = NoTopic

supervisor_tools_exit ==
    /\ scope = "supervisor"
    /\ sup_pc = "supervisor_tools"
    /\ LET msg == most_recent_message(supervisor_messages)
       IN  \/ exceeded_allowed_iterations(analysis_iterations, max_analyzer_iterations)
           \/ no_tool_calls(msg)
           \/ analysis_complete_tool_call(msg)
    /\ analysis_notes' = override_reducer(analysis_notes, ExitUpdateNotes(supervisor_messages))
    /\ units_started' = 0
    /\ sup_pc' = "__end__"
    /\ UNCHANGED <<scope, agent_vars, cfg_vars, unit_vars, supervisor_messages, analysis_iterations,
                   raw_analysis, coros, task_status, completion_order, gather_exc,
                   stage, next_id, plan_calls, diag>>

\* every tool call of every AI message of a history, oldest first
RECURSIVE AllToolCalls(_)
AllToolCalls(messages) ==
    IF messages = <<>> THEN <<>>
    ELSE (IF Head(messages).type = "ai" THEN Head(messages).tool_calls ELSE <<>>)
         \o AllToolCalls(Tail(messages))

\* a dispatch that keeps a queue: the calls rejected earlier go first
supervisor_tools_dispatch_with_backlog ==
    /\ scope = "supervisor"
    /\ sup_pc = "supervisor_tools"
    /\ LET msg     == most_recent_message(supervisor_messages)
           backlog == SelectSeq(AllToolCalls(supervisor_messages),
                        LAMBDA c : \E j \in 1..Len(supervisor_messages) :
                            /\ supervisor_messages[j].type = "tool"
                            /\ supervisor_messages[j].tool_call_id = c.id
                            /\ supervisor_messages[j].content[1] = RejectionText)
       IN  /\ ~ exceeded_allowed_iterations(analysis_iterations, max_analyzer_iterations)
           /\ ~ no_tool_calls(msg)
           /\ ~ analysis_complete_tool_call(msg)
           /\ ~ MissingTopic(analyze_repository_calls(msg, max_concurrent_analysis_units))
           /\ coros' = PySliceTo(backlog \o all_analyze_repository_calls(msg),
                                 max_concurrent_analysis_units)
    /\ task_status' = [i \in 1..Len(coros') |-> "running"]
    /\ completion_order' = <<>>
    /\ gather_exc' = "none"
    /\ units_started' = Len(coros')
    /\ sup_pc' = "gather"
    /\ UNCHANGED <<scope, agent_vars, cfg_vars, unit_vars, supervisor_messages, analysis_iterations,
                   analysis_notes, raw_analysis, stage, next_id, plan_calls, diag>>

\* the try block up to "await asyncio.gather(*coros)": the admitted units start
supervisor_tools_dispatch ==
    /\ scope = "supervisor"
    /\ sup_pc = "supervisor_tools"
    /\ LET msg == most_recent_message(supervisor_messages)
       IN  /\ ~ exceeded_allowed_iterations(analysis_iterations, max_analyzer_iterations)
           /\ ~ no_tool_calls(msg)
           /\ ~ analysis_complete_tool_call(msg)
           /\ ~ MissingTopic(analyze_repository_calls(msg, max_concurrent_analysis_units))
           /\ coros' = analyze_repository_calls(msg, max_concurrent_analysis_units)
    /\ task_status' = [i \in 1..Len(coros') |-> "running"]
    /\ completion_order' = <<>>
    /\ gather_exc' = "none"
    /\ units_started' = Len(coros')
    /\ sup_pc' = "gather"
    /\ UNCHANGED <<scope, agent_vars, cfg_vars, unit_vars, supervisor_messages, analysis_iterations,
                   analysis_notes, raw_analysis, stage, next_id, plan_calls, diag>>

\* an analyzer unit reaches END of analyzer_subgraph and returns its output
unit_returns ==
    /\ scope = "supervisor"
    /\ \E i \in 1..Len(coros) :
         /\ task_status[i] = "running"
         /\ task_status' = [task_status EXCEPT ![i] = "returned"]
         /\ completion_order' = Append(completion_order, i)
    /\ UNCHANGED <<scope, agent_vars, cfg_vars, unit_vars, sup_pc, supervisor_messages,
                   analysis_iterations, analysis_notes, raw_analysis, coros, gather_exc,
                   stage, next_id, plan_calls, units_started, diag>>

\* an analyzer unit raises (its model call fails, a tool name is unknown, ...):
\* gather hands the first exception to the awaiting supervisor_tools
unit_raises ==
    /\ scope = "supervisor"
    /\ \E i \in 1..Len(coros), cls \in ErrorClasses :
         /\ task_status[i] = "running"
         /\ task_status' = [task_status EXCEPT ![i] = "raised"]
         /\ completion_order' = Append(completion_order, i)
         /\ gather_exc' = IF gather_exc = "none" THEN cls ELSE gather_exc
    /\ UNCHANGED <<scope, agent_vars, cfg_vars, unit_vars, sup_pc, supervisor_messages,
                   analysis_iterations, analysis_notes, raw_analysis, coros,
                   stage, next_id, plan_calls, units_started, diag>>

\* every awaited unit returned: gather returns and the try block runs to its end
supervisor_tools_gathered ==
    /\ scope = "supervisor"
    /\ sup_pc = "gather"
    /\ \A i \in 1..Len(coros) : task_status[i] = "returned"
    /\ LET msg           == most_recent_message(supervisor_messages)
           calls         == analyze_repository_calls(msg, max_concurrent_analysis_units)
           overflow      == overflow_analyze_repository_calls(msg, max_concurrent_analysis_units)
           tool_results  == GatherResults(coros, completion_order)
           tool_messages == UnitToolMessages(tool_results, calls)
                              \o OverflowToolMessages(overflow, max_concurrent_analysis_units)
           raw_analysis_concat == [i \in 1..Len(tool_results) |-> tool_results[i].raw_analysis]
       IN  /\ supervisor_messages' = override_reducer(supervisor_messages, tool_messages)
           /\ raw_analysis' = override_reducer(raw_analysis, <<raw_analysis_concat>>)
    /\ sup_pc' = "supervisor"
    /\ UNCHANGED <<scope, agent_vars, cfg_vars, unit_vars, analysis_iterations, analysis_notes, coros,
                   task_status, completion_order, gather_exc, stage, next_id, plan_calls,
                   units_started, diag>>

\* print of the except block
Diagnostic(cls) ==
    IF cls = "token_limit" THEN "Token limit exceeded while analyzing"
    ELSE "Other error in analysis phase"

\* an except block that keeps what the step produced before the exception: the
\* reports of the units that returned and the overflow rejections
supervisor_tools_except_keeps_siblings ==
    /\ scope = "supervisor"
    /\ sup_pc = "gather"
    /\ gather_exc # "none"
    /\ diag' = Diagnostic(gather_exc)
    /\ LET msg      == most_recent_message(supervisor_messages)
           overflow == overflow_analyze_repository_calls(msg, max_concurrent_analysis_units)
           done     == SelectSeq(coros, LAMBDA c :
                          \E i \in 1..Len(coros) : coros[i] = c /\ task_status[i] = "returned")
           kept     == UnitToolMessages(GatherResults(done, <<>>), done)
                          \o OverflowToolMessages(overflow, max_concurrent_analysis_units)
       IN  /\ supervisor_messages' = override_reducer(supervisor_messages, kept)
           /\ analysis_notes' = override_reducer(analysis_notes,
                                                 ExceptUpdateNotes(supervisor_messages', gather_exc))
    /\ sup_pc' = "__end__"
    /\ UNCHANGED <<scope, agent_vars, cfg_vars, unit_vars, analysis_iterations,
                   raw_analysis, coros, task_status, completion_order, gather_exc,
                   stage, next_id, plan_calls, units_started>>

\* gather raised: the except block ends the loop (units still running are not awaited)
supervisor_tools_except ==
    /\ scope = "supervisor"
    /\ sup_pc = "gather"
    /\ gather_exc # "none"
    /\ diag' = Diagnostic(gather_exc)
    /\ analysis_notes' = override_reducer(analysis_notes,
                                          ExceptUpdateNotes(supervisor_messages, gather_exc))
    /\ sup_pc' = "__end__"
    /\ UNCHANGED <<scope, agent_vars, cfg_vars, unit_vars, supervisor_messages, analysis_iterations,
                   raw_analysis, coros, task_status, completion_order, gather_exc,
                   stage, next_id, plan_calls, units_started>>

\* building coros raised KeyError (a call without "analysis_topic" among the admitted
\* ones): no unit was started, and the except block ends the loop
supervisor_tools_keyerror ==
    /\ scope = "supervisor"
    /\ sup_pc = "supervisor_tools"
    /\ LET msg == most_recent_message(supervisor_messages)
       IN  /\ ~ exceeded_allowed_iterations(analysis_iterations, max_analyzer_iterations)
           /\ ~ no_tool_calls(msg)
           /\ ~ analysis_complete_tool_call(msg)
           /\ MissingTopic(analyze_repository_calls(msg, max_concurrent_analysis_units))
    /\ diag' = Diagnostic("other")
    /\ analysis_notes' = override_reducer(analysis_notes,
                                          ExceptUpdateNotes(supervisor_messages, "other"))
    /\ units_started' = 0
    /\ sup_pc' = "__end__"
    /\ UNCHANGED <<scope, agent_vars, cfg_vars, unit_vars, supervisor_messages, analysis_iterations,
                   raw_analysis, coros, task_status, completion_order, gather_exc,
                   stage, next_id, plan_calls>>

\* the edge to final_design_doc_generation taken while the subgraph is still running
supervisor_subgraph_returns_before_end ==
    /\ scope = "supervisor"
    /\ sup_pc \in {"supervisor", "supervisor_tools", "__end__"}
    /\ stage = "analysis_supervisor"
    /\ stage' = "final_design_doc_generation"
    /\ UNCHANGED <<scope, agent_vars, cfg_vars, unit_vars, sup_pc, supervisor_messages,
                   analysis_iterations, analysis_notes, raw_analysis, coros, task_status,
                   completion_order, gather_exc, next_id, plan_calls, units_started, diag>>

\* edge analysis_supervisor -> final_design_doc_generation of design_doc_agent
supervisor_subgraph_returns ==
    /\ scope = "supervisor"
    /\ sup_pc = "__end__"
    /\ stage = "analysis_supervisor"
    /\ stage' = "final_design_doc_generation"
    /\ UNCHANGED <<scope, agent_vars, cfg_vars, unit_vars, sup_pc, supervisor_messages,
                   analysis_iterations, analysis_notes, raw_analysis, coros, task_status,
                   completion_order, gather_exc, next_id, plan_calls, units_started, diag>>

\* ---------------------------------------------------------- analyzer (Think)
\* the tools get_github_tools builds, one standing for the eight of them
GithubTools == {"read_file_with_context"}

\* utils.get_all_tools: AnalysisComplete, plus the github tools when configured
get_all_tools(configured) ==
    {"AnalysisComplete"} \cup (IF configured THEN GithubTools ELSE {})

\* names a Think response may call (the model is not held to the bound tools)
ThinkNames == UNION {[1..n -> {"AnalysisComplete"} \cup GithubTools] : n \in 0..MaxToolCalls}

ThinkToolCalls(names, base) ==
    [i \in 1..Len(names) |-> [name |-> names[i], args |-> NoTopic, id |-> base + i]]

\* the two messages supervisor_tools seeds a unit's history with
InitialAnalyzerMessages(topic) ==
    <<SystemMessage(<<"repository_analysis_system_prompt", 0>>), HumanMessage(<<"analysis_topic", topic>>)>>

analyzer ==
    /\ scope = "unit"
    /\ unit_pc = "analyzer"
    /\ IF Cardinality(get_all_tools(github_configured)) = 0
       THEN \* raise ValueError("No tools found to conduct analysis ...")
            /\ unit_pc' = "raised"
            /\ UNCHANGED <<analyzer_messages, tool_call_iterations, unit_next_id>>
       ELSE /\ \E names \in ThinkNames :
                 LET response == AIMessage(ThinkToolCalls(names, unit_next_id))
                 IN  /\ analyzer_messages' = analyzer_messages \o <<response>>
                     /\ unit_next_id' = unit_next_id + Len(names)
            /\ tool_call_iterations' = tool_call_iterations + 1
            /\ unit_pc' = "analyzer_tools"
    /\ UNCHANGED <<scope, agent_vars, cfg_vars, sup_vars, compress_vars, act_calls, act_status, act_order>>

\* analysis_model.ainvoke raises after the collaborator's retries (no handler)
analyzer_model_fails ==
    /\ scope = "unit"
    /\ unit_pc = "analyzer"
    /\ Cardinality(get_all_tools(github_configured)) # 0
    /\ unit_pc' = "raised"
    /\ UNCHANGED <<scope, agent_vars, cfg_vars, sup_vars, compress_vars, analyzer_messages, tool_call_iterations,
                   act_calls, act_status, act_order, unit_next_id>>

\* ----------------------------------------------------- analyzer_tools (Act)
analyzer_tools_early_exit_back_to_think ==
    /\ scope = "unit"
    /\ unit_pc = "analyzer_tools"
    /\ Len(most_recent_message(analyzer_messages).tool_calls) = 0
    /\ tool_call_iterations < max_react_tool_calls
    /\ unit_pc' = "analyzer"
    /\ UNCHANGED <<scope, agent_vars, cfg_vars, sup_vars, compress_vars, analyzer_messages, tool_call_iterations,
                   act_calls, act_status, act_order, unit_next_id>>

\* Early Exit Criteria: no tool calls were made by the analyzer
analyzer_tools_early_exit ==
    /\ scope = "unit"
    /\ unit_pc = "analyzer_tools"
    /\ Len(most_recent_message(analyzer_messages).tool_calls) = 0
    /\ unit_pc' = "compress_analysis"
    /\ UNCHANGED <<scope, agent_vars, cfg_vars, sup_vars, compress_vars, analyzer_messages, tool_call_iterations,
                   act_calls, act_status, act_order, unit_next_id>>

\* tools_by_name[tool_call["name"]] has no such key
UnknownTool(calls, tools) == \E i \in 1..Len(calls) : calls[i].name \notin tools

\* building coros raises KeyError: the unit raises
analyzer_tools_keyerror ==
    /\ scope = "unit"
    /\ unit_pc = "analyzer_tools"
    /\ Len(most_recent_message(analyzer_messages).tool_calls) # 0
    /\ UnknownTool(most_recent_message(analyzer_messages).tool_calls,
                   get_all_tools(github_configured))
    /\ unit_pc' = "raised"
    /\ UNCHANGED <<scope, agent_vars, cfg_vars, sup_vars, compress_vars, analyzer_messages, tool_call_iterations,
                   act_calls, act_status, act_order, unit_next_id>>

\* up to "await asyncio.gather(*coros)": every requested call starts
analyzer_tools_act ==
    /\ scope = "unit"
    /\ unit_pc = "analyzer_tools"
    /\ Len(most_recent_message(analyzer_messages).tool_calls) # 0
    /\ ~ UnknownTool(most_recent_message(analyzer_messages).tool_calls,
                     get_all_tools(github_configured))
    /\ act_calls' = most_recent_message(analyzer_messages).tool_calls
    /\ act_status' = [i \in 1..Len(act_calls') |-> "running"]
    /\ act_order' = <<>>
    /\ unit_pc' = "act_gather"
    /\ UNCHANGED <<scope, agent_vars, cfg_vars, sup_vars, compress_vars, analyzer_messages, tool_call_iterations,
                   unit_next_id>>

\* execute_tool_safely: tool.ainvoke returned
tool_returns ==
    /\ scope = "unit"
    /\ \E i \in 1..Len(act_calls) :
         /\ act_status[i] = "running"
         /\ act_status' = [act_status EXCEPT ![i] = "returned"]
         /\ act_order' = Append(act_order, i)
    /\ UNCHANGED <<scope, agent_vars, cfg_vars, sup_vars, compress_vars, unit_pc, analyzer_messages,
                   tool_call_iterations, act_calls, unit_next_id>>

\* a tool wrapper without the except clause: the exception leaves the gather
tool_fails_uncaught ==
    /\ scope = "unit"
    /\ \E i \in 1..Len(act_calls) :
         /\ act_status[i] = "running"
         /\ act_calls[i].name # "AnalysisComplete"
         /\ act_status' = [act_status EXCEPT ![i] = "failed"]
         /\ act_order' = Append(act_order, i)
    /\ unit_pc' = "raised"
    /\ UNCHANGED <<scope, agent_vars, cfg_vars, sup_vars, compress_vars, analyzer_messages,
                   tool_call_iterations, act_calls, unit_next_id>>

\* execute_tool_safely: tool.ainvoke raised, the except clause returns the error text
\* (the AnalysisComplete tool is a constant lambda)
tool_fails ==
    /\ scope = "unit"
    /\ \E i \in 1..Len(act_calls) :
         /\ act_status[i] = "running"
         /\ act_calls[i].name # "AnalysisComplete"
         /\ act_status' = [act_status EXCEPT ![i] = "failed"]
         /\ act_order' = Append(act_order, i)
    /\ UNCHANGED <<scope, agent_vars, cfg_vars, sup_vars, compress_vars, unit_pc, analyzer_messages,
                   tool_call_iterations, act_calls, unit_next_id>>

\* what execute_tool_safely returned for a call that ended with status st
ToolObservation(call, st) ==
    IF st = "failed" THEN <<"Error executing tool: ", call.id>>
    ELSE IF call.name = "AnalysisComplete" THEN <<"Analysis completed", 0>>
    ELSE <<"tool report", call.id>>

\* asyncio.as_completed in place of gather: the observations as the calls finished
ActObservations_as_completed(calls, status, order) ==
    [i \in 1..Len(calls) |-> ToolObservation(calls[order[i]], status[order[i]])]

\* asyncio.gather(*coros): the observations, in the order of the awaitables
ActObservations(calls, status, order) ==
    [i \in 1..Len(calls) |-> ToolObservation(calls[i], status[i])]

\* zip(observations, tool_calls)
ToolOutputs(observations, calls) ==
    [i \in 1..Min(Len(observations), Len(calls)) |->
        ToolMessage(observations[i], calls[i].name, calls[i].id)]

LateExit_strict(iterations, cap, msg) ==
    \/ iterations > cap
    \/ \E i \in 1..Len(msg.tool_calls) : msg.tool_calls[i].name = "AnalysisComplete"

\* Late Exit Criteria
LateExit(iterations, cap, msg) ==
    \/ iterations >= cap
    \/ \E i \in 1..Len(msg.tool_calls) : msg.tool_calls[i].name = "AnalysisComplete"

\* every call finished: gather returns, the tool messages are appended
analyzer_tools_gathered ==
    /\ scope = "unit"
    /\ unit_pc = "act_gather"
    /\ \A i \in 1..Len(act_calls) : act_status[i] # "running"
    /\ LET msg          == most_recent_message(analyzer_messages)
           observations == ActObservations(act_calls, act_status, act_order)
           tool_outputs == ToolOutputs(observations, msg.tool_calls)
       IN  /\ analyzer_messages' = analyzer_messages \o tool_outputs
           /\ unit_pc' = IF LateExit(tool_call_iterations, max_react_tool_calls, msg)
                         THEN "compress_analysis" ELSE "analyzer"
    /\ UNCHANGED <<scope, agent_vars, cfg_vars, sup_vars, compress_vars, tool_call_iterations, act_calls,
                   act_status, act_order, unit_next_id>>

\* ------------------------------------------------------ compress_analysis
\* "while synthesis_attempts < 3"
MaxSynthesisAttempts == 3

\* the text of the report returned when the loop runs out
SynthesisErrorText == "Error synthesizing analysis report: Maximum retries exceeded"

\* what one synthesizer_model.ainvoke can end with: a response, or an exception
\* that is_token_limit_exceeded sorts into one of ErrorClasses
SynthesisOutcomes == {"ok"} \cup ErrorClasses

remove_up_to_last_ai_message_keeps_it(messages) ==
    LET ai == {i \in 1..Len(messages) : messages[i].type = "ai"}
    IN  IF ai = {} THEN messages
        ELSE SubSeq(messages, 1, CHOOSE i \in ai : \A j \in ai : j <= i)

\* a pruning step that always shortens: without an AI message the last entry goes
remove_up_to_last_ai_message_always_shortens(messages) ==
    LET ai == {i \in 1..Len(messages) : messages[i].type = "ai"}
    IN  IF ai = {} THEN SubSeq(messages, 1, Len(messages) - 1)
        ELSE SubSeq(messages, 1, (CHOOSE i \in ai : \A j \in ai : j <= i) - 1)

\* utils.remove_up_to_last_ai_message
remove_up_to_last_ai_message(messages) ==
    LET ai == {i \in 1..Len(messages) : messages[i].type = "ai"}
    IN  IF ai = {} THEN messages
        ELSE SubSeq(messages, 1, (CHOOSE i \in ai : \A j \in ai : j <= i) - 1)

\* "\n".join(str(m.content) for m in filter_messages(messages, include_types=["tool", "ai"]))
RawAnalysisOf(messages) ==
    LET kept == SelectSeq(messages, LAMBDA m : m.type \in {"tool", "ai"})
    IN  [i \in 1..Len(kept) |-> kept[i].content]

\* up to the while loop: the system prompt is replaced, the directive appended
compress_analysis ==
    /\ scope = "unit"
    /\ unit_pc = "compress_analysis"
    /\ compress_messages' =
          Append([analyzer_messages EXCEPT ![1] = SystemMessage(<<"compress_analysis_system_prompt", 0>>)],
                 HumanMessage(<<"compress_analysis_simple_human_message", 0>>))
    /\ synthesis_attempts' = 0
    /\ unit_pc' = "synthesize"
    \* analyzer_tools has returned: its calls and their outcomes are no state of the unit
    /\ act_calls' = <<>>
    /\ act_status' = <<>>
    /\ act_order' = <<>>
    /\ UNCHANGED <<scope, agent_vars, cfg_vars, sup_vars, analyzer_messages, tool_call_iterations,
                   unit_next_id, synthesis_outcomes, synthesis_requests,
                   compressed_analysis, unit_raw_analysis>>

\* an iteration of the loop whose synthesizer_model.ainvoke returns: the report
synthesize_returns ==
    /\ scope = "unit"
    /\ unit_pc = "synthesize"
    /\ synthesis_attempts < MaxSynthesisAttempts
    /\ synthesis_requests' = Append(synthesis_requests, compress_messages)
    /\ synthesis_outcomes' = Append(synthesis_outcomes, "ok")
    /\ compressed_analysis' = <<"compressed_analysis", 1>>
    /\ unit_raw_analysis' = <<RawAnalysisOf(compress_messages)>>
    /\ unit_pc' = "__end__"
    /\ UNCHANGED <<scope, agent_vars, cfg_vars, sup_vars, analyzer_messages, tool_call_iterations,
                   act_calls, act_status, act_order, unit_next_id, compress_messages,
                   synthesis_attempts>>

\* the history an iteration leaves for the next one, its ainvoke having raised cls
MessagesAfterFailure(messages, cls) ==
    IF cls = "token_limit" THEN remove_up_to_last_ai_message(messages) ELSE messages

\* an except block that leaves the attempt counter alone
synthesize_fails_uncounted ==
    /\ scope = "unit"
    /\ unit_pc = "synthesize"
    /\ synthesis_attempts < MaxSynthesisAttempts
    /\ \E cls \in ErrorClasses :
         /\ synthesis_outcomes' = Append(synthesis_outcomes, cls)
         /\ compress_messages' = MessagesAfterFailure(compress_messages, cls)
    /\ synthesis_requests' = Append(synthesis_requests, compress_messages)
    /\ UNCHANGED <<scope, agent_vars, cfg_vars, sup_vars, unit_pc, analyzer_messages,
                   tool_call_iterations, act_calls, act_status, act_order, unit_next_id,
                   compressed_analysis, unit_raw_analysis, synthesis_attempts>>

\* an iteration of the loop whose synthesizer_model.ainvoke raises: the except block
synthesize_fails ==
    /\ scope = "unit"
    /\ unit_pc = "synthesize"
    /\ synthesis_attempts < MaxSynthesisAttempts
    /\ \E cls \in ErrorClasses :
         /\ synthesis_outcomes' = Append(synthesis_outcomes, cls)
         /\ compress_messages' = MessagesAfterFailure(compress_messages, cls)
    /\ synthesis_requests' = Append(synthesis_requests, compress_messages)
    /\ synthesis_attempts' = synthesis_attempts + 1
    /\ UNCHANGED <<scope, agent_vars, cfg_vars, sup_vars, unit_pc, analyzer_messages,
                   tool_call_iterations, act_calls, act_status, act_order, unit_next_id,
                   compressed_analysis, unit_raw_analysis>>

synthesize_exhausted_raises ==
    /\ scope = "unit"
    /\ unit_pc = "synthesize"
    /\ ~ (synthesis_attempts < MaxSynthesisAttempts)
    /\ unit_pc' = "raised"
    /\ UNCHANGED <<scope, agent_vars, cfg_vars, sup_vars, compress_vars, analyzer_messages,
                   tool_call_iterations, act_calls, act_status, act_order, unit_next_id>>

\* the loop ran out: the return after it
synthesize_exhausted ==
    /\ scope = "unit"
    /\ unit_pc = "synthesize"
    /\ ~ (synthesis_attempts < MaxSynthesisAttempts)
    /\ compressed_analysis' = <<SynthesisErrorText, 0>>
    /\ unit_raw_analysis' = <<RawAnalysisOf(compress_messages)>>
    /\ unit_pc' = "__end__"
    /\ UNCHANGED <<scope, agent_vars, cfg_vars, sup_vars, analyzer_messages, tool_call_iterations,
                   act_calls, act_status, act_order, unit_next_id, compress_messages,
                   synthesis_attempts, synthesis_outcomes, synthesis_requests>>

\* ------------------------------------------- design_doc_agent (top level)
\* an AIMessage without tool calls and with the given content
AIMessageWith(c) == [AIMessage(NoCalls) EXCEPT !.content = c]

\* ----------------------------------------------- configuration, environment
\* no repository: a text that is not a github URL, GITHUB_REPOSITORY not set
NoRepo == 0

\* os.environ.get(name) is None
NoValue == 0

\* the caller is not run.py
NoArgs == [max_iterations |-> NoValue, max_concurrent |-> NoValue]

\* repositories, standing for their "owner/repo"
Repos == {1, 2}

\* "https://github.com/owner/repo" of a repository
GithubUrl(r) == <<"https://github.com/", r>>

\* what a repository URL field can hold: a github URL, or some other text
RepoUrls == {GithubUrl(r) : r \in Repos} \cup {<<"not a github url", NoRepo>>}

\* the "owner/repo" both get_github_tools and analyze_repository_structure parse
\* out of a URL (NoRepo when "github.com/" is not in it)
owner_repo(url) == IF url[1] = "https://github.com/" THEN url[2] ELSE NoRepo

\* get_github_tools: the github_repository every tool it builds sends its requests
\* for, parsed from configurable["github_repo_url"]
github_repository(config_repo_url) == owner_repo(config_repo_url)

\* analyze_repository_structure: os.environ after the call
analyze_repository_structure(url, env) ==
    IF owner_repo(url) # NoRepo
    THEN [env EXCEPT !.GITHUB_REPOSITORY = owner_repo(url)]
    ELSE env

\* os.environ with neither variable set
EnvironUnset == [GITHUB_REPOSITORY |-> NoRepo, MAX_ANALYZER_ITERATIONS |-> NoValue]

\* Field(default=...) of Configuration
DefaultMaxConcurrentAnalysisUnits == 6
DefaultMaxAnalyzerIterations == 15
DefaultMaxReactToolCalls == 5

\* Configuration.from_runnable_config, for one field: the environment variable
\* named after the field, else the entry of configurable, else the field default
from_runnable_config(env_value, configurable, field_name, default) ==
    IF env_value # NoValue THEN env_value
    ELSE IF field_name \in DOMAIN configurable THEN configurable[field_name]
    ELSE default

\* run.py: config["configurable"] built from the parsed command line
RunPyConfigurable(a) ==
    [allow_clarification           |-> FALSE,
     max_concurrent_analysis_units |-> a.max_concurrent,
     max_analysis_iterations       |-> a.max_iterations]

clarify_with_user_always_asks ==
    /\ scope = "agent"
    /\ stage = "clarify_with_user"
    /\ clarify_calls' = clarify_calls + 1
    /\ \E need_clarification \in BOOLEAN :
         IF need_clarification
         THEN /\ agent_messages' = add_messages(agent_messages, <<AIMessageWith(<<"question", 0>>)>>)
              /\ stage' = "__end__"
         ELSE /\ agent_messages' = add_messages(agent_messages, <<AIMessageWith(<<"verification", 0>>)>>)
              /\ stage' = "write_design_brief"
    /\ UNCHANGED <<scope, cfg_vars, unit_vars, environ, allow_clarification, model_token_limit,
                   repo_url, design_brief, final_design_doc, final_vars, sup_pc,
                   supervisor_messages, analysis_iterations, analysis_notes, raw_analysis,
                   coros, task_status, completion_order, gather_exc, next_id, plan_calls,
                   units_started, diag>>

\* clarify_with_user whose question does not end the run
clarify_with_user_question_proceeds ==
    /\ scope = "agent"
    /\ stage = "clarify_with_user"
    /\ IF ~ allow_clarification
       THEN /\ stage' = "write_design_brief"
            /\ UNCHANGED <<agent_messages, clarify_calls>>
       ELSE /\ clarify_calls' = clarify_calls + 1
            /\ \E need_clarification \in BOOLEAN :
                 IF need_clarification
                 THEN /\ agent_messages' = add_messages(agent_messages, <<AIMessageWith(<<"question", 0>>)>>)
                      /\ stage' = "write_design_brief"
                 ELSE /\ agent_messages' = add_messages(agent_messages, <<AIMessageWith(<<"verification", 0>>)>>)
                      /\ stage' = "write_design_brief"
    /\ UNCHANGED <<scope, cfg_vars, unit_vars, environ, allow_clarification, model_token_limit,
                   repo_url, design_brief, final_design_doc, final_vars, sup_pc,
                   supervisor_messages, analysis_iterations, analysis_notes, raw_analysis,
                   coros, task_status, completion_order, gather_exc, next_id, plan_calls,
                   units_started, diag>>

\* clarify_with_user: the gate, and the structured model response when it is open
clarify_with_user ==
    /\ scope = "agent"
    /\ stage = "clarify_with_user"
    /\ IF ~ allow_clarification
       THEN /\ stage' = "write_design_brief"
            /\ UNCHANGED <<agent_messages, clarify_calls>>
       ELSE /\ clarify_calls' = clarify_calls + 1
            /\ \E need_clarification \in BOOLEAN :
                 IF need_clarification
                 THEN /\ agent_messages' = add_messages(agent_messages, <<AIMessageWith(<<"question", 0>>)>>)
                      /\ stage' = "__end__"
                 ELSE /\ agent_messages' = add_messages(agent_messages, <<AIMessageWith(<<"verification", 0>>)>>)
                      /\ stage' = "write_design_brief"
    /\ UNCHANGED <<scope, cfg_vars, unit_vars, environ, allow_clarification, model_token_limit,
                   repo_url, design_brief, final_design_doc, final_vars, sup_pc,
                   supervisor_messages, analysis_iterations, analysis_notes, raw_analysis,
                   coros, task_status, completion_order, gather_exc, next_id, plan_calls,
                   units_started, diag>>

\* model.ainvoke of clarify_with_user raises after its retries (no handler)
clarify_model_fails ==
    /\ scope = "agent"
    /\ stage = "clarify_with_user"
    /\ allow_clarification
    /\ clarify_calls' = clarify_calls + 1
    /\ stage' = "raised"
    /\ UNCHANGED <<scope, cfg_vars, unit_vars, environ, allow_clarification, model_token_limit,
                   agent_messages, repo_url, design_brief, final_design_doc, final_vars, sup_pc,
                   supervisor_messages, analysis_iterations, analysis_notes, raw_analysis,
                   coros, task_status, completion_order, gather_exc, next_id, plan_calls,
                   units_started, diag>>

\* write_design_brief: the brief, and the seed of the supervisor history
write_design_brief ==
    /\ scope = "agent"
    /\ stage = "write_design_brief"
    /\ \E response_repo_url \in RepoUrls :
         /\ repo_url' = response_repo_url
         /\ environ' = analyze_repository_structure(response_repo_url, environ)
    /\ design_brief' = <<"design_brief", 1>>
    /\ supervisor_messages' =
          override_reducer_override(supervisor_messages,
                                    InitialSupervisorMessages(max_concurrent_analysis_units))
    /\ stage' = "analysis_supervisor"
    /\ UNCHANGED <<scope, cfg_vars, unit_vars, allow_clarification, model_token_limit,
                   agent_messages, final_design_doc, clarify_calls, final_vars, sup_pc,
                   analysis_iterations, analysis_notes, raw_analysis,
                   coros, task_status, completion_order, gather_exc, next_id, plan_calls,
                   units_started, diag>>

\* analysis_model.ainvoke of write_design_brief raises after its retries (no handler)
write_design_brief_model_fails ==
    /\ scope = "agent"
    /\ stage = "write_design_brief"
    /\ stage' = "raised"
    /\ UNCHANGED <<scope, cfg_vars, unit_vars, agent_vars, sup_pc,
                   supervisor_messages, analysis_iterations, analysis_notes, raw_analysis,
                   coros, task_status, completion_order, gather_exc, next_id, plan_calls,
                   units_started, diag>>

\* --------------------------------------------- final_design_doc_generation
\* "max_retries = 3"
max_retries == 3

\* get_model_token_limit returned None: the model is not in MODEL_TOKEN_LIMITS
NoLimit == 0

\* len(findings[:limit]) for a string of chars characters and a limit >= 0
TruncatedTo(chars, limit) == Min(chars, limit)

NextFindingsTokenLimit_linear(retry, token_limit, budget) ==
    IF retry = 0 THEN token_limit * 4 ELSE budget - ((token_limit * 4) \div 10)

\* the budget set by a token-limit failure: "model_token_limit * 4" at the first
\* retry, "int(findings_token_limit * 0.9)" after it
NextFindingsTokenLimit(retry, token_limit, budget) ==
    IF retry = 0 THEN token_limit * 4 ELSE (budget * 9) \div 10

UnknownLimitText ==
    "Error generating final design document: Token limit exceeded, however, we could not determine the model's maximum context length."

ErrorDocText == "Error generating final design document: "

\* the part of the state final_design_doc_generation leaves alone
FinalFrame ==
    UNCHANGED <<scope, cfg_vars, unit_vars, environ, allow_clarification, model_token_limit,
                repo_url, design_brief, clarify_calls, sup_pc, supervisor_messages,
                analysis_iterations, raw_analysis, coros, task_status, completion_order,
                gather_exc, next_id, plan_calls, units_started, diag>>

\* an iteration of the loop whose ainvoke returns: the document
final_design_doc_generation ==
    /\ scope = "agent"
    /\ stage = "final_design_doc_generation"
    /\ current_retry <= max_retries
    /\ final_requests' = Append(final_requests, findings)
    /\ final_outcomes' = Append(final_outcomes, "ok")
    /\ final_design_doc' = <<"final_design_doc", Len(final_requests) + 1>>
    /\ agent_messages' = add_messages(agent_messages, <<AIMessageWith(final_design_doc')>>)
    /\ analysis_notes' = override_reducer_override(analysis_notes, <<>>)
    /\ stage' = "__end__"
    /\ UNCHANGED <<findings, findings_token_limit, current_retry>>
    /\ FinalFrame

final_token_limit_exceeded_no_lookup ==
    /\ scope = "agent"
    /\ stage = "final_design_doc_generation"
    /\ current_retry <= max_retries
    /\ final_requests' = Append(final_requests, findings)
    /\ final_outcomes' = Append(final_outcomes, "token_limit")
    /\ findings_token_limit' =
          NextFindingsTokenLimit(current_retry, model_token_limit, findings_token_limit)
    /\ findings' = TruncatedTo(findings, findings_token_limit')
    /\ current_retry' = current_retry + 1
    /\ UNCHANGED <<final_design_doc, analysis_notes, stage, agent_messages>>
    /\ FinalFrame

\* an iteration whose ainvoke raises a token-limit error: with no known limit at
\* the first one the error document is returned, else findings is cut
final_token_limit_exceeded ==
    /\ scope = "agent"
    /\ stage = "final_design_doc_generation"
    /\ current_retry <= max_retries
    /\ final_requests' = Append(final_requests, findings)
    /\ final_outcomes' = Append(final_outcomes, "token_limit")
    /\ IF current_retry = 0 /\ model_token_limit = NoLimit
       THEN /\ final_design_doc' = <<UnknownLimitText, 0>>
            /\ analysis_notes' = override_reducer_override(analysis_notes, <<>>)
            /\ stage' = "__end__"
            /\ UNCHANGED <<findings, findings_token_limit, current_retry>>
       ELSE /\ findings_token_limit' =
                  NextFindingsTokenLimit(current_retry, model_token_limit, findings_token_limit)
            /\ findings' = TruncatedTo(findings, findings_token_limit')
            /\ current_retry' = current_retry + 1
            /\ UNCHANGED <<final_design_doc, analysis_notes, stage>>
    /\ UNCHANGED agent_messages
    /\ FinalFrame

final_other_error_retries ==
    /\ scope = "agent"
    /\ stage = "final_design_doc_generation"
    /\ current_retry <= max_retries
    /\ final_requests' = Append(final_requests, findings)
    /\ final_outcomes' = Append(final_outcomes, "other")
    /\ current_retry' = current_retry + 1
    /\ UNCHANGED <<agent_messages, final_design_doc, analysis_notes, stage, findings,
                   findings_token_limit>>
    /\ FinalFrame

\* an iteration whose ainvoke raises any other error: the error document
final_other_error ==
    /\ scope = "agent"
    /\ stage = "final_design_doc_generation"
    /\ current_retry <= max_retries
    /\ final_requests' = Append(final_requests, findings)
    /\ final_outcomes' = Append(final_outcomes, "other")
    /\ final_design_doc' = <<ErrorDocText, Len(final_requests) + 1>>
    /\ analysis_notes' = override_reducer_override(analysis_notes, <<>>)
    /\ stage' = "__end__"
    /\ UNCHANGED <<agent_messages, findings, findings_token_limit, current_retry>>
    /\ FinalFrame

\* the loop ran out: the return after it reads final_design_doc, a local no
\* iteration has bound (UnboundLocalError), and the node raises
final_retries_exhausted ==
    /\ scope = "agent"
    /\ stage = "final_design_doc_generation"
    /\ ~ (current_retry <= max_retries)
    /\ stage' = "raised"
    /\ UNCHANGED <<agent_messages, final_design_doc, analysis_notes, final_vars>>
    /\ FinalFrame

\* ------------------------------------------------------------ specification
FinalIdle ==
    /\ findings = 0
    /\ findings_token_limit = 0
    /\ current_retry = 0
    /\ final_outcomes = <<>>
    /\ final_requests = <<>>

\* no top-level run in the scope: the configuration defaults, nothing written
AgentIdle ==
    /\ args = NoArgs
    /\ environ = EnvironUnset
    /\ allow_clarification = TRUE
    /\ model_token_limit = NoLimit
    /\ agent_messages = <<>>
    /\ repo_url = <<"", 0>>
    /\ design_brief = <<"", 0>>
    /\ final_design_doc = <<"", 0>>
    /\ clarify_calls = 0
    /\ FinalIdle

CompressIdle ==
    /\ compress_messages = <<>>
    /\ synthesis_attempts = 0
    /\ synthesis_outcomes = <<>>
    /\ synthesis_requests = <<>>
    /\ compressed_analysis = <<"", 0>>
    /\ unit_raw_analysis = <<>>

UnitIdle ==
    /\ unit_pc = "none"
    /\ analyzer_messages = <<>>
    /\ tool_call_iterations = 0
    /\ act_calls = <<>>
    /\ act_status = <<>>
    /\ act_order = <<>>
    /\ unit_next_id = 0
    /\ CompressIdle

InitSupervisor ==
    /\ scope = "supervisor"
    /\ max_concurrent_analysis_units \in 1..MaxCap
    /\ max_analyzer_iterations \in 1..MaxIterCap
    /\ max_react_tool_calls = 1
    /\ github_configured = TRUE
    /\ github_repo_url = GithubUrl(1)
    /\ sup_pc = "supervisor"
    /\ supervisor_messages = InitialSupervisorMessages(max_concurrent_analysis_units)
    /\ analysis_iterations = 0
    /\ analysis_notes = <<>>
    /\ raw_analysis = <<>>
    /\ coros = <<>>
    /\ task_status = <<>>
    /\ completion_order = <<>>
    /\ gather_exc = "none"
    /\ stage = "analysis_supervisor"
    /\ next_id = 0
    /\ plan_calls = 0
    /\ units_started = 0
    /\ diag = "none"
    /\ UnitIdle
    /\ AgentIdle

SupervisorIdle ==
    /\ sup_pc = "none"
    /\ supervisor_messages = <<>>
    /\ analysis_iterations = 0
    /\ analysis_notes = <<>>
    /\ raw_analysis = <<>>
    /\ coros = <<>>
    /\ task_status = <<>>
    /\ completion_order = <<>>
    /\ gather_exc = "none"
    /\ stage = "none"
    /\ next_id = 0
    /\ plan_calls = 0
    /\ units_started = 0
    /\ diag = "none"

InitUnit ==
    /\ scope = "unit"
    /\ max_concurrent_analysis_units = 1
    /\ max_analyzer_iterations = 1
    /\ max_react_tool_calls \in 1..MaxReactCap
    /\ github_configured \in BOOLEAN
    /\ github_repo_url = IF github_configured THEN GithubUrl(1) ELSE <<"", NoRepo>>
    /\ SupervisorIdle
    /\ unit_pc = "analyzer"
    /\ analyzer_messages = InitialAnalyzerMessages(1)
    /\ tool_call_iterations = 0
    /\ act_calls = <<>>
    /\ act_status = <<>>
    /\ act_order = <<>>
    /\ unit_next_id = 0
    /\ CompressIdle
    /\ AgentIdle

\* the supervisor subgraph is not running: the top-level nodes around it
SupervisorNotRunning ==
    /\ sup_pc = "none"
    /\ analysis_iterations = 0
    /\ raw_analysis = <<>>
    /\ coros = <<>>
    /\ task_status = <<>>
    /\ completion_order = <<>>
    /\ gather_exc = "none"
    /\ next_id = 0
    /\ plan_calls = 0
    /\ units_started = 0
    /\ diag = "none"

\* analysis_notes as the supervisor can leave them: the reports of n units
NotesInputs == {[i \in 1..n |-> <<"compressed_analysis", i>>] : n \in 0..MaxNotes}

\* len("\n".join(analysis_notes)) for a non-empty list of notes
FindingsChars == {3000, 10000}

\* what get_model_token_limit can return for the configured writer model
TokenLimits == {NoLimit, 1000}

\* the state START -> clarify_with_user begins with
AgentStart ==
    /\ stage = "clarify_with_user"
    /\ agent_messages = <<HumanMessage(<<"request", 0>>)>>
    /\ supervisor_messages = <<>>
    /\ analysis_notes = <<>>
    /\ repo_url = <<"", 0>>
    /\ design_brief = <<"", 0>>
    /\ final_design_doc = <<"", 0>>
    /\ clarify_calls = 0
    /\ FinalIdle
    /\ SupervisorNotRunning
    /\ UnitIdle

\* design_doc_agent.ainvoke({"messages": [user request]}): START -> clarify_with_user
InitAgent ==
    /\ scope = "agent"
    /\ max_concurrent_analysis_units = 1
    /\ max_analyzer_iterations = 1
    /\ max_react_tool_calls = 1
    /\ github_configured = TRUE
    /\ github_repo_url \in {GithubUrl(r) : r \in Repos}
    /\ args = NoArgs
    /\ environ = EnvironUnset
    /\ allow_clarification \in BOOLEAN
    /\ model_token_limit \in TokenLimits
    /\ AgentStart

\* run.py: design_doc_agent.ainvoke({"messages": [query]}, config=config), each node
\* reading its Configuration with from_runnable_config
InitRunPy ==
    /\ scope = "agent"
    /\ args \in [max_iterations : 1..MaxIterCap, max_concurrent : 1..MaxCap]
    /\ environ \in [GITHUB_REPOSITORY : {NoRepo}, MAX_ANALYZER_ITERATIONS : {NoValue, 2}]
    /\ max_concurrent_analysis_units =
          from_runnable_config(NoValue, RunPyConfigurable(args),
                               "max_concurrent_analysis_units", DefaultMaxConcurrentAnalysisUnits)
    /\ max_analyzer_iterations =
          from_runnable_config(environ.MAX_ANALYZER_ITERATIONS, RunPyConfigurable(args),
                               "max_analyzer_iterations", DefaultMaxAnalyzerIterations)
    /\ max_react_tool_calls =
          from_runnable_config(NoValue, RunPyConfigurable(args),
                               "max_react_tool_calls", DefaultMaxReactToolCalls)
    /\ allow_clarification =
          from_runnable_config(NoValue, RunPyConfigurable(args), "allow_clarification", TRUE)
    /\ github_configured = TRUE
    /\ github_repo_url \in {GithubUrl(r) : r \in Repos}
    /\ model_token_limit = 1000
    /\ AgentStart

\* the edge analysis_supervisor -> final_design_doc_generation has been taken and
\* the node has run up to its loop ("findings = ...", "current_retry = 0")
InitFinal ==
    /\ scope = "agent"
    /\ max_concurrent_analysis_units = 1
    /\ max_analyzer_iterations = 1
    /\ max_react_tool_calls = 1
    /\ github_configured = TRUE
    /\ github_repo_url = GithubUrl(1)
    /\ args = NoArgs
    /\ environ = [EnvironUnset EXCEPT !.GITHUB_REPOSITORY = 1]
    /\ allow_clarification \in BOOLEAN
    /\ model_token_limit \in TokenLimits
    /\ stage = "final_design_doc_generation"
    /\ agent_messages = IF allow_clarification
                  THEN <<HumanMessage(<<"request", 0>>), AIMessageWith(<<"verification", 0>>)>>
                  ELSE <<HumanMessage(<<"request", 0>>)>>
    /\ clarify_calls = IF allow_clarification THEN 1 ELSE 0
    /\ supervisor_messages = InitialSupervisorMessages(max_concurrent_analysis_units)
    /\ analysis_notes \in NotesInputs
    /\ repo_url = GithubUrl(1)
    /\ design_brief = <<"design_brief", 1>>
    /\ final_design_doc = <<"", 0>>
    /\ findings \in (IF analysis_notes = <<>> THEN {0} ELSE FindingsChars)
    /\ findings_token_limit = 0
    /\ current_retry = 0
    /\ final_outcomes = <<>>
    /\ final_requests = <<>>
    /\ SupervisorNotRunning
    /\ UnitIdle

Init == InitSupervisor \/ InitUnit \/ InitAgent \/ InitRunPy \/ InitFinal

Next ==
    \/ supervisor
    \/ supervisor_model_fails
    \/ supervisor_tools_exit
    \/ supervisor_tools_dispatch
    \/ unit_returns
    \/ unit_raises
    \/ supervisor_tools_gathered
    \/ supervisor_tools_except
    \/ supervisor_tools_keyerror
    \/ supervisor_subgraph_returns
    \/ analyzer
    \/ analyzer_model_fails
    \/ analyzer_tools_early_exit
    \/ analyzer_tools_keyerror
    \/ analyzer_tools_act
    \/ tool_returns
    \/ tool_fails
    \/ analyzer_tools_gathered
    \/ compress_analysis
    \/ synthesize_returns
    \/ synthesize_fails
    \/ synthesize_exhausted
    \/ clarify_with_user
    \/ clarify_model_fails
    \/ write_design_brief
    \/ write_design_brief_model_fails
    \/ final_design_doc_generation
    \/ final_token_limit_exceeded
    \/ final_other_error
    \/ final_retries_exhausted

Spec == Init /\ [][Next]_vars

\* every invocation in flight eventually returns (a value or an error) and every
\* node that can run does: no step that is possible is put off forever
LiveSpec == Init /\ [][Next]_vars /\ WF_vars(Next)

\* =================================================================== claims
\* the AnalyzeRepository actions of the most recent Plan output (the history's last
\* entry while a Dispatch step is pending or running, or after it ended the loop)
RequestedActions ==
    LET last == supervisor_messages[Len(supervisor_messages)]
    IN  IF Len(supervisor_messages) > 0 /\ last.type = "ai"
        THEN SelectSeq(last.tool_calls, LAMBDA c : c.name = "AnalyzeRepository")
        ELSE <<>>

RunningUnits == {i \in 1..Len(task_status) : task_status[i] = "running"}

\* C1: in every Dispatch step, whatever number of AnalyzeRepository actions Plan
\* requested, at most max_concurrent_analysis_units analyzer units are started
\* (so never more than that many are running).
C1_DispatchWithinCap ==
    /\ units_started <= max_concurrent_analysis_units
    /\ Len(coros) <= max_concurrent_analysis_units
    /\ Cardinality(RunningUnits) <= max_concurrent_analysis_units

\* more actions requested than the ceiling, and exactly the ceiling started
C1_Witness ==
    /\ sup_pc = "gather"
    /\ Len(RequestedActions) > max_concurrent_analysis_units
    /\ units_started = max_concurrent_analysis_units
    /\ Cardinality(RunningUnits) = max_concurrent_analysis_units

\* C2: a Dispatch step that neither terminates nor fails, for n requested
\* AnalyzeRepository actions and ceiling k, has started exactly min(n,k) units, for
\* the first min(n,k) actions, and appends exactly n tool entries to the history:
\* the i-th carries the id of the i-th requested action, the first min(n,k) are the
\* units' reports (of the i-th topic) and the other n - min(n,k) are rejections.
C2_DispatchPartition ==
    [][ (sup_pc = "gather" /\ sup_pc' = "supervisor") =>
          LET req      == RequestedActions
              n        == Len(req)
              k        == max_concurrent_analysis_units
              m        == IF n <= k THEN n ELSE k
              old      == Len(supervisor_messages)
              appended == SubSeq(supervisor_messages', old + 1, Len(supervisor_messages'))
          IN  /\ units_started = m
              /\ coros = SubSeq(req, 1, m)
              /\ SubSeq(supervisor_messages', 1, old) = supervisor_messages
              /\ Len(appended) = n
              /\ \A i \in 1..n :
                    /\ appended[i].type = "tool"
                    /\ appended[i].tool_call_id = req[i].id
                    /\ i <= m => appended[i].content = <<"compressed_analysis", req[i].args>>
                    /\ i > m  => appended[i].content[1] = RejectionText
      ]_vars

\* three actions requested with ceiling 2: two reports then one rejection appended
C2_Witness ==
    /\ sup_pc = "supervisor"
    /\ max_concurrent_analysis_units = 2
    /\ units_started = 2
    /\ Len(supervisor_messages) = 6
    /\ supervisor_messages[4].content[1] = "compressed_analysis"
    /\ supervisor_messages[5].content[1] = "compressed_analysis"
    /\ supervisor_messages[6].content[1] = RejectionText

\* C4: the loop ends once the counter reaches max_analyzer_iterations (the Dispatch
\* step that sees it starts no unit and is the last), also when every Plan output
\* asks for AnalyzeRepository only; so, for a cap of at least 1, the Plan model is
\* invoked at most max_analyzer_iterations times.
C4_IterationCapEndsLoop ==
    /\ analysis_iterations >= max_analyzer_iterations
          => sup_pc \in {"supervisor_tools", "__end__"}
    /\ max_analyzer_iterations >= 1 => plan_calls <= max_analyzer_iterations

\* the loop ended on the cap alone: three Plan outputs, none with AnalysisComplete,
\* the last one asking for AnalyzeRepository
C4_Witness ==
    /\ sup_pc = "__end__"
    /\ max_analyzer_iterations = 3
    /\ analysis_iterations = 3
    /\ plan_calls = 3
    /\ Len(RequestedActions) > 0
    /\ \A j \in 1..Len(supervisor_messages) :
          \A c \in 1..Len(supervisor_messages[j].tool_calls) :
             supervisor_messages[j].tool_calls[c].name # "AnalysisComplete"

\* C5: the counter is 0 when the scope is created, grows by exactly 1 on every Plan
\* step and is left alone by every Dispatch step: it equals the number of Plan steps
\* executed (a Plan step whose model call raised has executed nothing and ends the
\* scope).
C5_CounterCountsPlanSteps ==
    /\ sup_pc # "raised" => analysis_iterations = plan_calls
    /\ sup_pc = "raised" => analysis_iterations = plan_calls - 1

\* two Plan steps and a full Dispatch step in between
C5_Witness ==
    /\ sup_pc = "supervisor_tools"
    /\ analysis_iterations = 2
    /\ raw_analysis # <<>>

\* the tool entries of the supervisor history that answer tool call id
ReportsFor(id) ==
    {j \in 1..Len(supervisor_messages) :
        supervisor_messages[j].type = "tool" /\ supervisor_messages[j].tool_call_id = id}

\* C3: every topic dispatched to an analyzer unit has exactly one report entry in
\* the supervisor history once the Dispatch step that started it is over, also when
\* that unit or a sibling of the same fan-out failed.
C3_EveryDispatchedTopicReported ==
    sup_pc \in {"supervisor", "supervisor_tools", "__end__"} =>
        \A i \in 1..Len(coros) : Cardinality(ReportsFor(coros[i].id)) = 1

\* the most recent Plan output (the history's last entry during a Dispatch step)
PlanOutput == supervisor_messages[Len(supervisor_messages)]

\* the termination test of the spec, on the state a Dispatch step starts from
C6_Terminal ==
    \/ analysis_iterations >= max_analyzer_iterations
    \/ Len(PlanOutput.tool_calls) = 0
    \/ \E c \in 1..Len(PlanOutput.tool_calls) : PlanOutput.tool_calls[c].name = "AnalysisComplete"

\* the dispatch of this step raised: a started unit raised, or an admitted action
\* has no analysis_topic to build its unit from
C6_DispatchRaised ==
    \/ sup_pc = "gather" /\ gather_exc # "none"
    \/ /\ sup_pc = "supervisor_tools"
       /\ \E i \in 1..Len(RequestedActions) :
             i <= max_concurrent_analysis_units /\ RequestedActions[i].args = NoTopic

\* a step with which the Dispatch step is over
C6_DispatchOver ==
    /\ sup_pc \in {"supervisor_tools", "gather"}
    /\ sup_pc' \in {"supervisor", "__end__"}

C7_ToolContents ==
    LET tools == SelectSeq(supervisor_messages, LAMBDA m : m.type = "tool")
    IN  [j \in 1..Len(tools) |-> tools[j].content]

\* C7: when the dispatch raises, the loop ends in that same step with the notes
\* equal to the tool entries the history already had, and nothing else of the state
\* changes; the resulting state does not depend on the class of the error (only
\* the diagnostic printed does).
C7_DispatchFailureEndsLoop ==
    [][ ((sup_pc = "gather" /\ gather_exc # "none" /\ sup_pc' # sup_pc) \/ diag' # diag) =>
          /\ sup_pc' = "__end__"
          /\ analysis_notes' = C7_ToolContents
          /\ diag' # "none"
          /\ UNCHANGED <<supervisor_messages, analysis_iterations, raw_analysis, stage>>
      ]_vars

\* a token-limit failure in a Dispatch step, after an earlier step's reports
C7_Witness ==
    /\ sup_pc = "__end__"
    /\ gather_exc = "token_limit"
    /\ diag = "Token limit exceeded while analyzing"
    /\ Len(analysis_notes) > 0
    /\ analysis_notes = C7_ToolContents

\* a Plan step whose model call failed: the model was invoked, no output appended
C8_PlanFails ==
    /\ plan_calls' = plan_calls + 1
    /\ analysis_iterations' = analysis_iterations

\* C8 as claimed: a failed Plan model call ends the loop with the notes collected
\* so far, and no exception leaves the Supervisor.
C8_PlanFailureEndsLoop ==
    [][ C8_PlanFails =>
          /\ sup_pc' = "__end__"
          /\ stage' # "raised"
          /\ analysis_notes' = C7_ToolContents
      ]_vars

\* C8 as amended: a failed Plan model call raises out of the Supervisor and out of
\* the run: no notes are collected, the state is left as it was, and Final
\* Synthesis is never reached.
C8_PlanFailurePropagates ==
    [][ /\ C8_PlanFails =>
              /\ sup_pc' = "raised"
              /\ stage' = "raised"
              /\ UNCHANGED <<supervisor_messages, analysis_notes, raw_analysis>>
        /\ stage = "raised" => (stage' = "raised" /\ sup_pc' = "raised" /\ UNCHANGED analysis_notes)
      ]_vars

\* the Plan call failed with reports in the history, none of them collected
C8_Witness ==
    /\ sup_pc = "raised"
    /\ stage = "raised"
    /\ Len(C7_ToolContents) > 0
    /\ analysis_notes = <<>>

RunningCalls == {i \in 1..Len(act_status) : act_status[i] = "running"}

\* C9: join-all: a Dispatch step (an Act step) has not moved on - to append
\* results, return to Plan (Think), or end - while a branch it started is running.
C9_JoinAll ==
    /\ sup_pc # "gather" => RunningUnits = {}
    /\ unit_pc # "act_gather" => RunningCalls = {}

\* C10: in both fan-outs, whatever the order in which the branches complete, the
\* entries appended are in the order of the input calls: the i-th carries the id of
\* the i-th call and the result of the i-th branch.
C10_ResultsInCallOrder ==
    [][ /\ (sup_pc = "gather" /\ sup_pc' = "supervisor") =>
              LET old == Len(supervisor_messages)
              IN  /\ Len(supervisor_messages') >= old + Len(coros)
                  /\ \A i \in 1..Len(coros) :
                        /\ supervisor_messages'[old + i].type = "tool"
                        /\ supervisor_messages'[old + i].tool_call_id = coros[i].id
                        /\ supervisor_messages'[old + i].content = <<"compressed_analysis", coros[i].args>>
        /\ (unit_pc = "act_gather" /\ unit_pc' # "act_gather") =>
              LET old == Len(analyzer_messages)
              IN  /\ Len(analyzer_messages') = old + Len(act_calls)
                  /\ \A i \in 1..Len(act_calls) :
                        /\ analyzer_messages'[old + i].type = "tool"
                        /\ analyzer_messages'[old + i].tool_call_id = act_calls[i].id
                        /\ analyzer_messages'[old + i].name = act_calls[i].name
                        /\ (analyzer_messages'[old + i].content[1] = "Error executing tool: ")
                              <=> (act_status[i] = "failed")
                        /\ act_calls[i].name # "AnalysisComplete" =>
                              analyzer_messages'[old + i].content[2] = act_calls[i].id
      ]_vars

\* the second unit finished before the first, and the reports were appended in
\* call order
C10_Witness ==
    /\ sup_pc = "supervisor"
    /\ completion_order = <<2, 1>>
    /\ Len(supervisor_messages) >= 5
    /\ supervisor_messages[4].content = <<"compressed_analysis", 1>>
    /\ supervisor_messages[5].content = <<"compressed_analysis", 2>>

\* ---------------------------------------------------------------- C11 - C20
\* the entries of the supervisor history that are overflow rejections
Rejections ==
    {j \in 1..Len(supervisor_messages) :
        /\ supervisor_messages[j].type = "tool"
        /\ supervisor_messages[j].content[1] = RejectionText}

\* C11: no queue of rejected actions: whenever units are started, each of them is
\* for an action of the Plan output immediately before that Dispatch step, and none
\* is for an action that already has an entry (a report or a rejection) in the
\* history; a rejected action runs again only as a new action of a later Plan output.
C11_NoBacklog ==
    [][ coros' # coros =>
          /\ sup_pc = "supervisor_tools"
          /\ PlanOutput.type = "ai"
          /\ \A i \in 1..Len(coros') :
                /\ \E n \in 1..Len(PlanOutput.tool_calls) : PlanOutput.tool_calls[n] = coros'[i]
                /\ \A j \in 1..Len(supervisor_messages) :
                      supervisor_messages[j].type = "tool" =>
                          supervisor_messages[j].tool_call_id # coros'[i].id
      ]_vars

\* a second fan-out is running after a rejection in the first: its units are for
\* the new Plan output, and the rejected action is not among them
C11_Witness ==
    /\ sup_pc = "gather"
    /\ analysis_iterations = 2
    /\ Rejections # {}
    /\ Len(coros) > 0
    /\ \A i \in 1..Len(coros) :
          /\ \E n \in 1..Len(PlanOutput.tool_calls) : PlanOutput.tool_calls[n] = coros[i]
          /\ \A j \in Rejections : supervisor_messages[j].tool_call_id # coros[i].id

\* C12: every rejection entry in the history carries the configured ceiling,
\* max_concurrent_analysis_units, in its text.
C12_RejectionCarriesCeiling ==
    \A j \in Rejections :
        supervisor_messages[j].content = <<RejectionText, max_concurrent_analysis_units>>

\* two actions rejected under ceiling 1: both rejections say 1
C12_Witness ==
    /\ max_concurrent_analysis_units = 1
    /\ Cardinality(Rejections) = 2
    /\ \A j \in Rejections : supervisor_messages[j].content[2] = 1

\* C13: an Act step on a Think output with no capability calls goes to Compress,
\* appends nothing to the history and executes no capability.
C13_NoCallsGoesToCompress ==
    [][ (unit_pc = "analyzer_tools" /\ unit_pc' # "analyzer_tools"
           /\ Len(analyzer_messages[Len(analyzer_messages)].tool_calls) = 0) =>
          /\ unit_pc' = "compress_analysis"
          /\ UNCHANGED <<analyzer_messages, tool_call_iterations, act_calls, act_status, act_order>>
      ]_vars

\* the first Think step requested nothing: the unit is at Compress with the
\* history of system prompt, topic and that one response
C13_Witness ==
    /\ unit_pc = "compress_analysis"
    /\ tool_call_iterations = 1
    /\ Len(analyzer_messages) = 3
    /\ analyzer_messages[3].type = "ai"
    /\ analyzer_messages[3].tool_calls = <<>>
    /\ act_calls = <<>>

C14_FailedCalls == {i \in 1..Len(act_status) : act_status[i] = "failed"}

\* C14: while a capability call of the running fan-out has raised, the unit does
\* not fail; when the Act step ends it goes to Think or Compress, having appended
\* one entry per call: "Error executing tool: ..." with the id of each call that
\* raised, and its own result for every other call.
C14_ToolFailureBecomesResult ==
    [][ (unit_pc = "act_gather" /\ C14_FailedCalls' # {}) =>
          /\ unit_pc' \in {"act_gather", "analyzer", "compress_analysis"}
          /\ unit_pc' # "act_gather" =>
                LET old == Len(analyzer_messages)
                IN  /\ Len(analyzer_messages') = old + Len(act_calls)
                    /\ SubSeq(analyzer_messages', 1, old) = analyzer_messages
                    /\ \A i \in 1..Len(act_calls) :
                          /\ analyzer_messages'[old + i].type = "tool"
                          /\ analyzer_messages'[old + i].tool_call_id = act_calls[i].id
                          /\ i \in C14_FailedCalls =>
                                analyzer_messages'[old + i].content
                                    = <<"Error executing tool: ", act_calls[i].id>>
                          /\ i \notin C14_FailedCalls =>
                                analyzer_messages'[old + i].content
                                    \in {<<"tool report", act_calls[i].id>>, <<"Analysis completed", 0>>}
      ]_vars

\* a fan-out of two calls, the first raised and the second returned: the unit is
\* back at Think with an error entry and a result entry
C14_Witness ==
    /\ unit_pc = "analyzer"
    /\ Len(analyzer_messages) = 5
    /\ act_status = <<"failed", "returned">>
    /\ analyzer_messages[4].content[1] = "Error executing tool: "
    /\ analyzer_messages[5].content[1] = "tool report"

\* the calls requested so far in the unit, and the entries answering call id
C15_Requested == AllToolCalls(analyzer_messages)

C15_ResultsFor(id) ==
    {j \in 1..Len(analyzer_messages) :
        analyzer_messages[j].type = "tool" /\ analyzer_messages[j].tool_call_id = id}

\* C15: once an Act step is over - the unit is back at Think, at Compress or
\* beyond, or has ended - every capability call requested so far, whatever its
\* name, has exactly one tool-result entry with its id in the history.
C15_OneResultPerCall ==
    (scope = "unit" /\ unit_pc \notin {"analyzer_tools", "act_gather"}) =>
        \A i \in 1..Len(C15_Requested) :
            Cardinality(C15_ResultsFor(C15_Requested[i].id)) = 1

\* C16: an Act step that executed calls goes to Compress exactly when the counter
\* has reached max_react_tool_calls or one of the calls was AnalysisComplete, and
\* back to Think otherwise; the counter of Think steps never passes the cap.
C16_LateExit ==
    [][ /\ (unit_pc = "act_gather" /\ unit_pc' # "act_gather") =>
              /\ unit_pc' \in {"analyzer", "compress_analysis"}
              /\ unit_pc' = "compress_analysis" <=>
                    \/ tool_call_iterations >= max_react_tool_calls
                    \/ \E i \in 1..Len(act_calls) : act_calls[i].name = "AnalysisComplete"
        /\ scope = "unit" => tool_call_iterations' <= max_react_tool_calls
        /\ unit_pc' = "analyzer" => tool_call_iterations' < max_react_tool_calls
      ]_vars

\* with cap 2 and no AnalysisComplete call, the first Act step went back to Think
\* and the second one went to Compress
C16_Witness ==
    /\ unit_pc = "compress_analysis"
    /\ max_react_tool_calls = 2
    /\ tool_call_iterations = 2
    /\ Len(act_calls) > 0
    /\ \A i \in 1..Len(C15_Requested) : C15_Requested[i].name # "AnalysisComplete"
    /\ \A i \in 1..Len(C15_Requested) : Cardinality(C15_ResultsFor(C15_Requested[i].id)) = 1

\* C17: with no repository access configured, the Think step raises before the
\* model is invoked: no response is ever appended and the counter stays at 0.
C17_NoToolsRaises ==
    (scope = "unit" /\ ~ github_configured) =>
        /\ unit_pc \in {"analyzer", "raised"}
        /\ tool_call_iterations = 0
        /\ analyzer_messages = InitialAnalyzerMessages(1)

C18_Failures == {i \in 1..Len(synthesis_outcomes) : synthesis_outcomes[i] # "ok"}

\* C18: Compress invokes its model at most 3 times; after 3 failed attempts it
\* does not raise and invokes nothing more: it returns the report whose
\* compressed_analysis is the "Maximum retries exceeded" text.
C18_ThreeAttempts ==
    /\ Len(synthesis_outcomes) <= 3
    /\ Len(synthesis_requests) = Len(synthesis_outcomes)
    /\ Cardinality(C18_Failures) = 3 =>
          /\ unit_pc \in {"synthesize", "__end__"}
          /\ unit_pc = "__end__" =>
                compressed_analysis =
                    <<"Error synthesizing analysis report: Maximum retries exceeded", 0>>
    /\ (unit_pc = "__end__" /\ Cardinality(C18_Failures) < 3) =>
          compressed_analysis[1] = "compressed_analysis"

\* three attempts failed, the last one not on a token limit, and the unit ended
\* with the synthetic error
C18_Witness ==
    /\ unit_pc = "__end__"
    /\ synthesis_outcomes = <<"token_limit", "other", "other">>
    /\ compressed_analysis[1] = SynthesisErrorText

\* C19: a failure of the Compress model that is not a token-limit error is the
\* last invocation: the stage returns the synthetic error after it.
C19_OtherFailureAborts ==
    \A i \in 1..Len(synthesis_outcomes) :
        synthesis_outcomes[i] = "other" =>
            /\ i = Len(synthesis_outcomes)
            /\ unit_pc = "__end__" => compressed_analysis[1] = SynthesisErrorText

C20_LastAI(messages) ==
    CHOOSE i \in 1..Len(messages) :
        /\ messages[i].type = "ai"
        /\ \A j \in (i + 1)..Len(messages) : messages[j].type # "ai"

\* C20: when an attempt on a history with an assistant entry failed on a token
\* limit, the request of the next attempt is that history up to, and without, its
\* last assistant entry.
C20_PrunedBeforeLastAI ==
    \A n \in 1..(Len(synthesis_requests) - 1) :
        (/\ synthesis_outcomes[n] = "token_limit"
         /\ \E i \in 1..Len(synthesis_requests[n]) : synthesis_requests[n][i].type = "ai") =>
            LET cut == C20_LastAI(synthesis_requests[n])
            IN  /\ Len(synthesis_requests[n + 1]) = cut - 1
                /\ \A i \in 1..(cut - 1) :
                      synthesis_requests[n + 1][i] = synthesis_requests[n][i]

\* a history of two Think steps with their results: the retry after a token-limit
\* failure was sent the history up to the first result, the second assistant
\* entry, its result and the directive gone
C20_Witness ==
    /\ Len(synthesis_requests) = 2
    /\ synthesis_outcomes[1] = "token_limit"
    /\ Len(synthesis_requests[1]) = 7
    /\ synthesis_requests[1][3].type = "ai"
    /\ synthesis_requests[1][5].type = "ai"
    /\ synthesis_requests[1][7].type = "human"
    /\ Len(synthesis_requests[2]) = 4
    /\ synthesis_requests[2][3].type = "ai"
    /\ synthesis_requests[2][4].type = "tool"

\* ---------------------------------------------------------------- C21 - C30
\* the texts of the tool-result and assistant entries of the unit's history as
\* Compress found it, in order
C22_Trail ==
    LET kept == SelectSeq(analyzer_messages, LAMBDA m : m.type \in {"tool", "ai"})
    IN  [i \in 1..Len(kept) |-> kept[i].content]

\* C21: on every return of Compress the report has one raw text and it is not
\* empty, whatever the attempts before it were.
C21_RawTextNotEmpty ==
    (scope = "unit" /\ unit_pc = "__end__") =>
        /\ Len(unit_raw_analysis) = 1
        /\ unit_raw_analysis[1] # <<>>

\* C22: the raw text of the report is the join of every tool-result and assistant
\* entry the history had on entry to Compress, pruned or not.
C22_RawTextIsWholeTrail ==
    (scope = "unit" /\ unit_pc = "__end__") => unit_raw_analysis = <<C22_Trail>>

\* C23: every request sent to the Compress model starts with the compression
\* system prompt and ends with the clean-up directive.
C23_RequestFramed ==
    \A n \in 1..Len(synthesis_requests) :
        LET req == synthesis_requests[n]
        IN  /\ Len(req) >= 2
            /\ req[1].type = "system"
            /\ req[1].content[1] = "compress_analysis_system_prompt"
            /\ req[Len(req)].type = "human"
            /\ req[Len(req)].content[1] = "compress_analysis_simple_human_message"

\* the budget after n token-limit failures for a model of token limit L
RECURSIVE C24_Budget(_, _)
C24_Budget(L, n) == IF n <= 1 THEN 4 * L ELSE (9 * C24_Budget(L, n - 1)) \div 10

C24_Cut(chars, budget) == IF chars <= budget THEN chars ELSE budget

\* C24: with a known token limit L, the budget after the first token-limit failure
\* is 4*L and after each later one floor(0.9 * previous); every attempt after a
\* failure is sent the findings cut to the budget of that failure. For 10,000
\* characters and L = 1,000 the attempts see 10,000, 4,000, 3,600 and 3,240
\* characters, and a success at attempt 4 returns the content of attempt 4.
C24_TruncationLadder ==
    (scope = "agent" /\ model_token_limit # NoLimit) =>
        /\ \A n \in 2..Len(final_requests) :
              final_requests[n] =
                  C24_Cut(final_requests[n - 1], C24_Budget(model_token_limit, n - 1))
        /\ current_retry >= 1 =>
              findings_token_limit = C24_Budget(model_token_limit, current_retry)
        /\ (model_token_limit = 1000 /\ Len(final_requests) >= 1 /\ final_requests[1] = 10000) =>
              /\ \E m \in 1..4 : final_requests = SubSeq(<<10000, 4000, 3600, 3240>>, 1, m)
              /\ (Len(final_requests) = 4 /\ final_outcomes[4] = "ok") =>
                    /\ stage = "__end__"
                    /\ final_design_doc = <<"final_design_doc", 4>>
                    /\ agent_messages[Len(agent_messages)].content = <<"final_design_doc", 4>>

\* the scenario of the claim, run to its end
C24_Witness ==
    /\ stage = "__end__"
    /\ model_token_limit = 1000
    /\ final_outcomes = <<"token_limit", "token_limit", "token_limit", "ok">>
    /\ final_requests = <<10000, 4000, 3600, 3240>>
    /\ final_design_doc = <<"final_design_doc", 4>>

\* C25: with no known token limit, a token-limit failure of the first attempt is
\* the only model invocation: the stage has returned the explanatory error
\* document, cut nothing and retried nothing.
C25_UnknownLimitAborts ==
    (scope = "agent" /\ model_token_limit = NoLimit /\ Len(final_outcomes) >= 1
       /\ final_outcomes[1] = "token_limit") =>
        /\ Len(final_outcomes) = 1
        /\ stage = "__end__"
        /\ current_retry = 0
        /\ findings = final_requests[1]
        /\ final_design_doc[1] =
              "Error generating final design document: Token limit exceeded, however, we could not determine the model's maximum context length."

\* notes worth 10,000 characters, no known limit, the first attempt hit the limit
C25_Witness ==
    /\ stage = "__end__"
    /\ model_token_limit = NoLimit
    /\ final_outcomes = <<"token_limit">>
    /\ final_requests = <<10000>>
    /\ final_design_doc[1] = UnknownLimitText

C27_TokenLimitFailures ==
    {i \in 1..Len(final_outcomes) : final_outcomes[i] = "token_limit"}

\* C27: the writer model is invoked at most 4 times; after 4 token-limit
\* failures the stage does not raise: it returns the "Maximum retries exceeded"
\* document.
C27_ExhaustionReturns ==
    /\ Len(final_outcomes) <= 4
    /\ Cardinality(C27_TokenLimitFailures) = 4 =>
          /\ stage \in {"final_design_doc_generation", "__end__"}
          /\ stage = "__end__" =>
                final_design_doc[1] =
                    "Error generating final design document: Maximum retries exceeded"

\* Final Synthesis has made an attempt and none has succeeded
C28_FailurePath ==
    /\ scope = "agent"
    /\ Len(final_outcomes) >= 1
    /\ \A i \in 1..Len(final_outcomes) : final_outcomes[i] # "ok"

\* C28: on a failure path of Final Synthesis the run does not raise, and once it
\* has ended the last entry of the top-level history - what run.py writes out -
\* is the error document.
C28_ErrorDocumentDelivered ==
    C28_FailurePath =>
        /\ stage # "raised"
        /\ stage = "__end__" =>
              /\ final_design_doc[1] \in {UnknownLimitText, ErrorDocText,
                      "Error generating final design document: Maximum retries exceeded"}
              /\ agent_messages[Len(agent_messages)].content = final_design_doc

C29_Extends(old, new) == Len(new) >= Len(old) /\ SubSeq(new, 1, Len(old)) = old

\* C29: no step before Final Synthesis removes a note (analysis_notes only gets
\* longer, its old entries kept in place), Final Synthesis leaves the notes alone
\* while it retries, and they are empty once it has returned.
C29_NotesAppendOnlyThenCleared ==
    [][ /\ stage # "final_design_doc_generation" => C29_Extends(analysis_notes, analysis_notes')
        /\ (stage = "final_design_doc_generation" /\ stage' = "final_design_doc_generation") =>
              analysis_notes' = analysis_notes
        /\ (stage = "final_design_doc_generation" /\ stage' = "__end__") =>
              analysis_notes' = <<>>
      ]_vars

\* Final Synthesis started with notes, retried once and returned: no notes left
C29_Witness ==
    /\ scope = "agent"
    /\ stage = "__end__"
    /\ final_outcomes = <<"token_limit", "ok">>
    /\ final_requests[1] > 0
    /\ analysis_notes = <<>>

\* C30: with allow_clarification false the gate step goes to write_design_brief,
\* appends nothing to the history and invokes no model.
C30_GateClosed ==
    [][ (scope = "agent" /\ ~ allow_clarification) =>
          /\ clarify_calls' = 0
          /\ stage = "clarify_with_user" =>
                /\ stage' \in {"clarify_with_user", "write_design_brief"}
                /\ agent_messages' = agent_messages
      ]_vars

\* the gate was passed with the flag off: only the request in the history
C30_Witness ==
    /\ scope = "agent"
    /\ ~ allow_clarification
    /\ stage = "write_design_brief"
    /\ clarify_calls = 0
    /\ agent_messages = <<HumanMessage(<<"request", 0>>)>>

\* ------------------------------------------------------------ C31 - C40

\* the history ends with the gate's clarifying question
C31_Asked ==
    /\ agent_messages # <<>>
    /\ agent_messages[Len(agent_messages)] = AIMessageWith(<<"question", 0>>)

\* C31: with allow_clarification true, a gate step whose model responds either ends
\* the run with the question appended to the history, or appends the verification
\* and goes to write_design_brief; once the question is asked the run stays ended
\* and the Brief Writer, the Supervisor and Final Synthesis have written nothing.
C31_GateOutcomes ==
    [][ /\ (scope = "agent" /\ allow_clarification /\ stage = "clarify_with_user"
                /\ stage' \notin {"clarify_with_user", "raised"}) =>
              \/ /\ stage' = "__end__"
                 /\ agent_messages' = agent_messages \o <<AIMessageWith(<<"question", 0>>)>>
              \/ /\ stage' = "write_design_brief"
                 /\ agent_messages' = agent_messages \o <<AIMessageWith(<<"verification", 0>>)>>
        /\ (scope = "agent" /\ C31_Asked') =>
              /\ stage' = "__end__"
              /\ design_brief' = <<"", 0>>
              /\ repo_url' = <<"", 0>>
              /\ supervisor_messages' = <<>>
              /\ plan_calls' = 0
              /\ final_outcomes' = <<>>
              /\ final_design_doc' = <<"", 0>>
      ]_vars

\* the gate asked its question: the run is over with request and question only
C31_Witness ==
    /\ scope = "agent"
    /\ allow_clarification
    /\ stage = "__end__"
    /\ clarify_calls = 1
    /\ agent_messages = <<HumanMessage(<<"request", 0>>), AIMessageWith(<<"question", 0>>)>>
    /\ design_brief = <<"", 0>>

\* position of a node of design_doc_agent along START -> ... -> END
C32_StageRank(s) ==
    CASE s = "clarify_with_user"           -> 1
      [] s = "write_design_brief"          -> 2
      [] s = "analysis_supervisor"         -> 3
      [] s = "final_design_doc_generation" -> 4
      [] OTHER                             -> 5

\* the nodes a node of design_doc_agent can hand over to (an uncaught exception
\* ends the run from any of them)
C32_Successors(s) ==
    CASE s = "clarify_with_user"           -> {"write_design_brief", "__end__", "raised"}
      [] s = "write_design_brief"          -> {"analysis_supervisor", "raised"}
      [] s = "analysis_supervisor"         -> {"final_design_doc_generation", "raised"}
      [] s = "final_design_doc_generation" -> {"__end__", "raised"}
      [] OTHER                             -> {}

\* C32: the top-level stages run in the order clarify_with_user, write_design_brief,
\* analysis_supervisor, final_design_doc_generation and none is entered twice; a
\* Plan step happens only in analysis_supervisor with the brief pair in the history
\* seed, and final_design_doc_generation is entered only from the terminal state of
\* the supervisor loop.
C32_StageOrder ==
    [][ /\ stage' # stage =>
              /\ stage' \in C32_Successors(stage)
              /\ C32_StageRank(stage') > C32_StageRank(stage)
        /\ plan_calls' > plan_calls =>
              /\ stage = "analysis_supervisor"
              /\ Len(supervisor_messages) >= 2
              /\ PySliceTo(supervisor_messages, 2)
                    = InitialSupervisorMessages(max_concurrent_analysis_units)
        /\ (stage # "analysis_supervisor" /\ stage' = "analysis_supervisor") =>
              /\ design_brief' # <<"", 0>>
              /\ repo_url' # <<"", 0>>
              /\ supervisor_messages'
                    = InitialSupervisorMessages(max_concurrent_analysis_units)
              /\ plan_calls' = 0
        /\ (stage # "final_design_doc_generation"
                /\ stage' = "final_design_doc_generation") =>
              /\ sup_pc = "__end__"
              /\ sup_pc' = "__end__"
        /\ stage' \in {"clarify_with_user", "write_design_brief"} =>
              /\ plan_calls' = 0
              /\ supervisor_messages' = <<>>
              /\ final_outcomes' = <<>>
        /\ clarify_calls' <= 1
      ]_vars

\* the supervisor loop made two Plan steps and ended; Final Synthesis was entered
C32_Witness ==
    /\ scope = "supervisor"
    /\ stage = "final_design_doc_generation"
    /\ sup_pc = "__end__"
    /\ plan_calls = 2

\* the units of the fan-out that raised, whatever the order they finished in
C33_RaisedUnits == {i \in 1..Len(task_status) : task_status[i] \notin {"running", "returned"}}

\* what a fan-out of units that all returned adds to the history, as a function of
\* the Plan output and the ceiling alone
C33_UnitEntries ==
    [i \in 1..Len(RequestedActions) |->
        IF i <= max_concurrent_analysis_units
        THEN ToolMessage(<<"compressed_analysis", RequestedActions[i].args>>,
                         "AnalyzeRepository", RequestedActions[i].id)
        ELSE ToolMessage(<<RejectionText, max_concurrent_analysis_units>>,
                         "AnalyzeRepository", RequestedActions[i].id)]

\* what a fan-out of capability calls adds to the unit history, as a function of
\* the Think output and of each call's own outcome
C33_ActEntries ==
    [i \in 1..Len(act_calls) |->
        ToolMessage(IF act_status[i] = "failed" THEN <<"Error executing tool: ", act_calls[i].id>>
                    ELSE IF act_calls[i].name = "AnalysisComplete" THEN <<"Analysis completed", 0>>
                    ELSE <<"tool report", act_calls[i].id>>,
                    act_calls[i].name, act_calls[i].id)]

\* C33: the state a fan-out leaves behind is a function of the model output that
\* requested it and of each branch's own outcome, for every order in which the
\* branches finish: the number of units started, the entries appended (in call
\* order), the notes and the next node do not depend on the interleaving.
C33_InterleavingIndependent ==
    [][ /\ (sup_pc = "supervisor_tools" /\ sup_pc' = "gather") =>
              /\ Len(coros') = Min(Len(RequestedActions), max_concurrent_analysis_units)
              /\ units_started' = Len(coros')
        /\ (sup_pc = "gather" /\ sup_pc' # "gather") =>
              IF C33_RaisedUnits # {}
              THEN /\ sup_pc' = "__end__"
                   /\ supervisor_messages' = supervisor_messages
                   /\ analysis_notes' = analysis_notes \o C7_ToolContents
              ELSE /\ sup_pc' = "supervisor"
                   /\ supervisor_messages' = supervisor_messages \o C33_UnitEntries
                   /\ analysis_notes' = analysis_notes
        /\ (unit_pc = "act_gather" /\ unit_pc' # "act_gather") =>
              /\ analyzer_messages' = analyzer_messages \o C33_ActEntries
              /\ unit_pc' \in {"analyzer", "compress_analysis"}
      ]_vars

\* two capability calls finished in the reverse of the call order, one of them
\* failed, and the entries are in the history in call order
C33_Witness ==
    /\ scope = "unit"
    /\ unit_pc \in {"analyzer", "compress_analysis"}
    /\ Len(act_calls) = 2
    /\ act_order = <<2, 1>>
    /\ act_status = <<"returned", "failed">>
    /\ PySliceFrom(analyzer_messages, Len(analyzer_messages) - 2) = C33_ActEntries

\* C34: while the analyzer units of a run work (stage analysis_supervisor), the
\* repository their capability calls send requests for is the repository the Brief
\* Writer registered (GITHUB_REPOSITORY, set from the reference it extracted).
C34_CallsTargetRegistered ==
    (scope = "agent" /\ stage = "analysis_supervisor") =>
        github_repository(github_repo_url) = environ.GITHUB_REPOSITORY

\* the notes that are overflow rejections
C35_RejectionNotes ==
    {i \in 1..Len(analysis_notes) : analysis_notes[i][1] = RejectionText}

\* C35: once the supervisor loop has ended, analysis_notes is the sequence of the
\* contents of all tool entries of supervisor_messages, in history order; every
\* overflow rejection of the history is one of the notes.
C35_NotesAreToolEntries ==
    (scope = "supervisor" /\ sup_pc = "__end__") =>
        /\ Len(analysis_notes) = Len(ToolMessagesOf(supervisor_messages))
        /\ \A i \in 1..Len(analysis_notes) :
              analysis_notes[i] = ToolMessagesOf(supervisor_messages)[i].content
        /\ Cardinality(C35_RejectionNotes) = Cardinality(Rejections)

\* the loop ended and handed over a unit report followed by an overflow rejection
C35_Witness ==
    /\ scope = "supervisor"
    /\ sup_pc = "__end__"
    /\ stage = "final_design_doc_generation"
    /\ Len(analysis_notes) = 2
    /\ analysis_notes[1][1] = "compressed_analysis"
    /\ analysis_notes[2][1] = RejectionText

\* C36: for a run started through run.py, the iteration cap the supervisor
\* compares its counter with is the value of --max-iterations, and the concurrency
\* ceiling is the value of --max-concurrent.
C36_CommandLineCapsInForce ==
    (scope = "agent" /\ args # NoArgs) =>
        /\ max_analyzer_iterations = args.max_iterations
        /\ max_concurrent_analysis_units = args.max_concurrent

\* the history sent with attempt n holds an assistant entry
C37_HasAI(n) == \E i \in 1..Len(synthesis_requests[n]) : synthesis_requests[n][i].type = "ai"

\* C37: after a token-limit failure the next attempt is sent the same history when
\* it held no assistant entry, and a strictly shorter prefix of it when it held one;
\* attempts on an unchanged history count like the others, so the stage makes no
\* fourth attempt and ends with the synthetic error.
C37_PruneOrUnchanged ==
    /\ \A n \in 1..(Len(synthesis_requests) - 1) :
          synthesis_outcomes[n] = "token_limit" =>
              IF C37_HasAI(n)
              THEN /\ Len(synthesis_requests[n + 1]) < Len(synthesis_requests[n])
                   /\ synthesis_requests[n + 1]
                         = SubSeq(synthesis_requests[n], 1, Len(synthesis_requests[n + 1]))
              ELSE synthesis_requests[n + 1] = synthesis_requests[n]
    /\ (scope = "unit" /\ unit_pc = "synthesize") =>
          synthesis_attempts = Len(synthesis_outcomes)
    /\ synthesis_attempts <= 3
    /\ (Len(synthesis_outcomes) = 3 /\ synthesis_outcomes[3] = "token_limit") =>
          /\ unit_pc \in {"synthesize", "__end__"}
          /\ unit_pc = "__end__" => compressed_analysis[1] = SynthesisErrorText

\* three token-limit failures, the last two on the same history without an
\* assistant entry, and the stage has returned the synthetic error
C37_Witness ==
    /\ unit_pc = "__end__"
    /\ synthesis_outcomes = <<"token_limit", "token_limit", "token_limit">>
    /\ C37_HasAI(1)
    /\ ~ C37_HasAI(2)
    /\ synthesis_requests[3] = synthesis_requests[2]
    /\ compressed_analysis[1] = SynthesisErrorText

\* the loop was ended by a unit that raised
C38_UnitRaised == scope = "supervisor" /\ sup_pc = "__end__" /\ gather_exc # "none"

\* C38: when a unit of a Dispatch step raised, the history ends with that step's
\* Plan output and none of its actions has a tool entry - not the siblings that
\* returned, not the overflow actions - and the notes are the contents of the tool
\* entries of the earlier steps, nothing of this step among them.
C38_FailedStepLeavesNothing ==
    C38_UnitRaised =>
        /\ PlanOutput.type = "ai"
        /\ \A i \in 1..Len(PlanOutput.tool_calls) :
              ReportsFor(PlanOutput.tool_calls[i].id) = {}
        /\ Len(analysis_notes) = Len(ToolMessagesOf(supervisor_messages))
        /\ \A k \in 1..Len(analysis_notes) :
              \E j \in 1..(Len(supervisor_messages) - 1) :
                  /\ supervisor_messages[j].type = "tool"
                  /\ supervisor_messages[j].content = analysis_notes[k]
                  /\ \A i \in 1..Len(PlanOutput.tool_calls) :
                        supervisor_messages[j].tool_call_id # PlanOutput.tool_calls[i].id

\* the second Dispatch step started two units and rejected a third action; one
\* unit returned, the other raised; the notes are those of the first step
C38_Witness ==
    /\ C38_UnitRaised
    /\ plan_calls = 2
    /\ Len(RequestedActions) = 3
    /\ \E i \in 1..Len(coros) : task_status[i] = "returned"
    /\ analysis_notes # <<>>

\* the Plan outputs of the history whose Dispatch step started analyzer units: one
\* of their actions has a unit report, or is the action of a unit of the last fan-out
C39_StartingSteps ==
    {j \in 1..Len(supervisor_messages) :
        /\ supervisor_messages[j].type = "ai"
        /\ \E c \in 1..Len(supervisor_messages[j].tool_calls) :
              LET id == supervisor_messages[j].tool_calls[c].id
              IN  \/ \E i \in 1..Len(coros) : coros[i].id = id
                  \/ \E r \in ReportsFor(id) :
                        supervisor_messages[r].content[1] = "compressed_analysis"}

\* C39: a Dispatch step starts units only while the counter, already incremented by
\* its Plan step, is below the cap: with cap N at most N-1 Dispatch steps start
\* units; with N = 1 no unit is ever started and the loop ends with empty notes.
C39_AtMostCapMinusOneDispatches ==
    scope = "supervisor" =>
        /\ Cardinality(C39_StartingSteps) <= max_analyzer_iterations - 1
        /\ sup_pc = "gather" => analysis_iterations <= max_analyzer_iterations - 1
        /\ max_analyzer_iterations = 1 =>
              /\ sup_pc # "gather"
              /\ coros = <<>>
              /\ units_started = 0
              /\ analysis_notes = <<>>
              /\ raw_analysis = <<>>

\* cap 3: two Dispatch steps started units, the third ended the loop on the cap
\* although its Plan output asked for more
C39_Witness ==
    /\ scope = "supervisor"
    /\ max_analyzer_iterations = 3
    /\ sup_pc = "__end__"
    /\ analysis_iterations = 3
    /\ Cardinality(C39_StartingSteps) = 2
    /\ Len(RequestedActions) > 0

\* the run is over - a document or a question returned, an error raised - or, in
\* an explored part of the pipeline, has reached the node the next part starts from
\* (analysis_supervisor for the top-level nodes before it, final_design_doc_generation
\* for the supervisor loop, the unit's END for an analyzer unit)
C40_Done ==
    CASE scope = "unit"       -> unit_pc \in {"__end__", "raised"}
      [] scope = "supervisor" -> stage \in {"final_design_doc_generation", "raised"}
      [] OTHER                -> stage \in {"__end__", "raised", "analysis_supervisor"}

\* a variant of the analyzer unit: the Think steps and attempts still allowed, the
\* position within the current round, the capability calls still running
C40_UnitRank ==
    <<CASE unit_pc \in {"analyzer", "analyzer_tools", "act_gather"}
             -> (max_react_tool_calls - tool_call_iterations) + MaxSynthesisAttempts + 3
        [] unit_pc = "compress_analysis" -> MaxSynthesisAttempts + 2
        [] unit_pc = "synthesize" -> (MaxSynthesisAttempts - synthesis_attempts) + 1
        [] OTHER -> 0,
      CASE unit_pc = "analyzer_tools" -> 2
        [] unit_pc = "act_gather" -> 1
        [] OTHER -> 0,
      Cardinality(RunningCalls)>>

\* a variant of the supervisor loop: the Plan steps still allowed, the position
\* within the current round, the units still running
C40_SupervisorRank ==
    <<CASE stage # "analysis_supervisor" -> 0
        [] sup_pc = "__end__" -> 1
        [] OTHER -> (max_analyzer_iterations - analysis_iterations) + 2,
      CASE sup_pc = "supervisor_tools" -> 2
        [] sup_pc = "gather" -> 1
        [] OTHER -> 0,
      Cardinality(RunningUnits)>>

\* a variant of the top-level graph: the nodes ahead, and within
\* final_design_doc_generation the iterations its loop has left
C40_AgentRank ==
    <<CASE stage = "clarify_with_user" -> max_retries + 5
        [] stage = "write_design_brief" -> max_retries + 4
        [] stage = "analysis_supervisor" -> max_retries + 3
        [] stage = "final_design_doc_generation" -> (max_retries + 1 - current_retry) + 1
        [] OTHER -> 0,
      0, 0>>

C40_Rank ==
    CASE scope = "unit"       -> C40_UnitRank
      [] scope = "supervisor" -> C40_SupervisorRank
      [] OTHER                -> C40_AgentRank

\* lexicographic order on triples of naturals
C40_Less(r, s) ==
    /\ \A i \in 1..3 : r[i] >= 0
    /\ \/ r[1] < s[1]
       \/ r[1] = s[1] /\ r[2] < s[2]
       \/ r[1] = s[1] /\ r[2] = s[2] /\ r[3] < s[3]

\* C40: when no possible step is put off forever, every run eventually reaches a
\* terminal state: every step strictly decreases a variant made of the finite caps
\* (so no loop of the supervisor, a unit, the compression stage or Final Synthesis
\* goes round forever), and a state that is not terminal always has a next step.
C40_Terminates ==
    /\ [][C40_Less(C40_Rank', C40_Rank)]_vars
    /\ [](C40_Done \/ ENABLED Next)
    /\ <>C40_Done

\* the longest loop of the unit ran to its end: every Think step allowed, then
\* three failed attempts of the compression stage
C40_Witness ==
    /\ scope = "unit"
    /\ unit_pc = "__end__"
    /\ max_react_tool_calls = 2
    /\ tool_call_iterations = 2
    /\ synthesis_attempts = 3

====
